---- MODULE Spec2Model ----
(***************************************************************************)
(* Model of scripts/generate_subscriptions.py: the source list parser, the *)
(* subscription aggregator (fetch with retry, sequential and thread-pool   *)
(* aggregation, deduplication), the node sanitizer / field completer, the  *)
(* protocol decoders, the content classifier, the structured extractors    *)
(* and the Document with its groups.                                       *)
(*                                                                         *)
(* Python values are tagged records: [t |-> "none"], [t |-> "str", v],     *)
(* [t |-> "int", v] and [t |-> "bool", v] (v is the text str() renders),   *)
(* [t |-> "list", v |-> sequence] and [t |-> "dict", v |-> function].      *)
(*                                                                         *)
(* The messages of the program are written in English:                     *)
(*   "no valid nodes" 无有效节点       "unknown error" 未知错误              *)
(*   "timed out" 处理超时              "request timed out" 请求超时          *)
(*   "connection error" 连接错误       "HTTP error: " HTTP错误:             *)
(*   "SSL error" SSL错误               "error" 错误                         *)
(*   "failed after several attempts" 多次尝试后失败                         *)
(*   "unnamed" 未命名                  "node-" 节点-                        *)
(*   "load balance" 负载均衡           "auto select" 自动选择               *)
(*   "node select" 节点选择            "test node" 测试节点                 *)
(***************************************************************************)
EXTENDS Integers, Sequences, FiniteSets, TLC

VARIABLES
    pc,                  \* position in main(): "fetch", "dedup", "done", "written"; in the unit
                         \* specifications "http", "config" / "cleaned" / "node", "url" / "decoded",
                         \* "text" / "processed" / "again", "open" / "scan" / "parsed"
    web,                 \* the remote side: per source, the kind of its answers (see KindList)
    url_entries,         \* main: the Source Entries, updated with their Fetch Outcome
    args_list,           \* main: the (url, remark) arguments of the submitted tasks
    i,                   \* main: index of enumerate() in the running fetch loop (0-based)
    finished,            \* main: futures already yielded by as_completed
    now,                 \* seconds since the batch was submitted
    all_proxies,         \* main: accumulated node list
    failed_urls,         \* main: report lines of failed sources
    failed_entries,      \* main: entry_info of failed sources
    success_count,       \* main: number of successful sources
    remark_nodes_map,    \* main: label -> nodes
    remark_stats,        \* main: label -> number of nodes
    remark_failed_stats, \* main: label -> failure reason
    unique_proxies,      \* main: deduplicated node list
    seen,                \* main: identity keys already kept
    k,                   \* main: position of the deduplication loop in all_proxies (1-based)
    fs,                  \* fetch_subscription: attempt counter, requests issued, sleeps, return value
    proxy,               \* the node under clean_config / ensure_proxy_required_fields
    hashseed,            \* the salt of hash() of this process (PYTHONHASHSEED)
    document,            \* the Document written by generate_clash_config_with_groups (None before)
    input,               \* the text and label handed to a decoder or to process_subscription_content;
                         \* the file handed to parse_source_file
    output               \* what the decoder or process_subscription_content returned for input;
                         \* the locals of parse_source_file

vars == <<pc, web, url_entries, args_list, i, finished, now, all_proxies, failed_urls,
          failed_entries, success_count, remark_nodes_map, remark_stats,
          remark_failed_stats, unique_proxies, seen, k, fs, proxy, hashseed,
          document, input, output>>

unitVars == <<fs, proxy, hashseed>>

extVars == <<document, input, output>>

aggVars == <<url_entries, args_list, i, finished, now, failed_urls, failed_entries,
             success_count, remark_nodes_map, remark_stats, remark_failed_stats>>

(***************************************************************************)
(* Bounds of the model.                                                    *)
(***************************************************************************)
MaxProxies == 3        \* longest node list given to the deduplication loop on its own
MaxFeatured == 2       \* sources of a batch whose label, answers and body vary freely
MaxOver == 1           \* sources of the largest batch beyond the parallel threshold
MaxDocSources == 2     \* sources of a list of large subscriptions

(***************************************************************************)
(* Python values.                                                          *)
(***************************************************************************)
NoneV == [t |-> "none"]
StrV(s) == [t |-> "str", v |-> s]
IntV(s) == [t |-> "int", v |-> s]
BoolV(s) == [t |-> "bool", v |-> s]
ListV(s) == [t |-> "list", v |-> s]
DictV(f) == [t |-> "dict", v |-> f]
PyTrue == BoolV("True")
PyFalse == BoolV("False")

\* bool(x): None, '', 0, False and empty collections are falsy
Truthy(x) ==
    CASE x.t = "none" -> FALSE
      [] x.t = "str"  -> x.v # ""
      [] x.t = "int"  -> x.v # "0"
      [] x.t = "bool" -> x.v = "True"
      [] x.t = "list" -> Len(x.v) > 0
      [] x.t = "dict" -> DOMAIN x.v # {}

\* f"{x}" of a scalar: the type is lost, only the text remains
Fmt(x) == IF x.t = "none" THEN "None" ELSE x.v

\* d.get(key, default)
Get(d, key, default) == IF key \in DOMAIN d.v THEN d.v[key] ELSE default

\* min(a, b)
MinOf(a, b) == IF a < b THEN a ELSE b

\* the sequences over S of length at most n
SeqsUpTo(S, n) == UNION {[1..m -> S] : m \in 0..n}

\* the aggregation state of main() before any source is processed
IdleAgg ==
    /\ web = <<>>
    /\ url_entries = <<>>
    /\ args_list = <<>>
    /\ i = 0
    /\ finished = {}
    /\ now = 0
    /\ failed_urls = <<>>
    /\ failed_entries = <<>>
    /\ success_count = 0
    /\ remark_nodes_map = <<>>
    /\ remark_stats = <<>>
    /\ remark_failed_stats = <<>>

\* nothing written, nothing handed to a decoder
IdleExt ==
    /\ document = NoneV
    /\ input = NoneV
    /\ output = NoneV

(***************************************************************************)
(* clean_config and ensure_proxy_required_fields.                          *)
(***************************************************************************)
RECURSIVE clean_config(_)
RECURSIVE CleanList(_)

\* [clean_config(item) for item in value if clean_config(item) is not None]
CleanList(items) ==
    SelectSeq([j \in 1..Len(items) |-> clean_config(items[j])], LAMBDA x : x # NoneV)

\* the value clean_config stores for a key it keeps
CleanValue(value) ==
    CASE value.t = "dict" -> clean_config(value)
      [] value.t = "list" -> ListV(CleanList(value.v))
      [] OTHER            -> value

\* whether clean_config keeps the key holding this value
CleanKeeps(value) ==
    /\ ~(value = NoneV \/ value = StrV(""))
    /\ ~(value.t \in {"list", "dict"} /\ ~Truthy(value))
    /\ value.t \in {"list", "dict"} => Truthy(CleanValue(value))

clean_config(config) ==
    IF config.t # "dict" THEN config
    ELSE DictV([key \in {x \in DOMAIN config.v : CleanKeeps(config.v[x])} |->
                   CleanValue(config.v[key])])

\* hash(str(proxy)) % 10000: the digest of a str depends on the text and on the
\* salt the interpreter draws at start-up
HashMod(p) == (hashseed * 31 + Cardinality(DOMAIN p.v) * 17) % 10000

\* an inference that looks at uuid before cipher and password
InferTypeUuidFirst(p) ==
    LET has(key) == key \in DOMAIN p.v IN
    IF has("uuid") THEN (IF has("alterId") THEN "vmess" ELSE "vless")
    ELSE IF has("cipher") /\ has("password") THEN "ss"
    ELSE IF has("password") /\ has("sni") THEN "trojan"
    ELSE IF has("password") /\ has("alpn") THEN "hysteria2"
    ELSE "http"

\* the type the field completer infers from the keys present
InferType(p) ==
    LET has(key) == key \in DOMAIN p.v IN
    IF has("cipher") /\ has("password") THEN "ss"
    ELSE IF has("uuid") THEN (IF has("alterId") THEN "vmess" ELSE "vless")
    ELSE IF has("password") /\ has("sni") THEN "trojan"
    ELSE IF has("password") /\ has("alpn") THEN "hysteria2"
    ELSE "http"

\* p[key] = value if key is not in p
SetDefault(p, key, value) ==
    IF key \in DOMAIN p.v THEN p
    ELSE DictV([x \in DOMAIN p.v \cup {key} |-> IF x = key THEN value ELSE p.v[x]])

\* a field completer that forgets the server default
EnsureNoServerDefault(p) ==
    IF p.t # "dict" THEN p
    ELSE LET p1 == SetDefault(p, "name", StrV("node-" \o ToString(HashMod(p))))
             p2 == SetDefault(p1, "type", StrV(InferType(p1)))
             p4 == SetDefault(p2, "port", IntV("443"))
         IN SetDefault(p4, "udp", PyTrue)

ensure_proxy_required_fields(p) ==
    IF p.t # "dict" THEN p
    ELSE LET p1 == SetDefault(p, "name", StrV("node-" \o ToString(HashMod(p))))
             p2 == SetDefault(p1, "type", StrV(InferType(p1)))
             p3 == SetDefault(p2, "server", StrV("unknown-server"))
             p4 == SetDefault(p3, "port", IntV("443"))
         IN SetDefault(p4, "udp", PyTrue)

\* every decoder and extractor ends with ensure_proxy_required_fields(clean_config(config)):
\* first the argument is evaluated ...
Sanitize ==
    /\ pc = "config"
    /\ proxy' = clean_config(proxy)
    /\ pc' = "cleaned"
    /\ UNCHANGED <<web, all_proxies, unique_proxies, seen, k, fs, hashseed>>
    /\ UNCHANGED aggVars
    /\ UNCHANGED extVars

\* ... then the field completer runs on it and its result is returned
Complete ==
    /\ pc = "cleaned"
    /\ proxy' = ensure_proxy_required_fields(proxy)
    /\ pc' = "node"
    /\ UNCHANGED <<web, all_proxies, unique_proxies, seen, k, fs, hashseed>>
    /\ UNCHANGED aggVars
    /\ UNCHANGED extVars

(***************************************************************************)
(* Sanitizer and field completer on their own: candidate nodes whose       *)
(* fields are missing, empty in every way Python has, or set.              *)
(***************************************************************************)
Absent == [t |-> "absent"]
EmptyLike == {NoneV, StrV(""), ListV(<<>>), DictV(<<>>), DictV([a |-> NoneV]), ListV(<<NoneV>>)}
NameVals == {Absent} \cup EmptyLike \cup {StrV("n"), ListV(<<StrV("")>>)}
TypeVals == {Absent, NoneV, StrV(""), StrV("ss")}
ServerVals == {Absent, StrV(""), DictV([a |-> DictV(<<>>)]), StrV("h")}
PortVals == {Absent, NoneV, ListV(<<NoneV>>), IntV("0"), IntV("8388")}
UdpVals == {Absent, NoneV, PyFalse, PyTrue}
HintKeys == {"cipher", "password", "uuid", "alterId", "sni", "alpn"}
HintSets == {{}, {"cipher", "password"}, {"uuid", "alterId"}, {"uuid"}, {"password", "sni"},
             {"password", "alpn"}, {"password"}, {"cipher", "password", "uuid", "alterId"},
             {"cipher", "password", "uuid"}, {"uuid", "password", "sni"},
             {"password", "sni", "alpn"}, {"cipher", "sni", "alpn"}}
HashSeeds == {0, 1}

\* the dict holding the given fields and the given hint keys
Candidate(name, type, server, port, udp, hints) ==
    LET f == [name |-> name, type |-> type, server |-> server, port |-> port, udp |-> udp]
        present == {x \in DOMAIN f : f[x] # Absent}
    IN DictV([x \in present \cup hints |->
                 IF x \in present THEN f[x]
                 ELSE IF x = "alterId" THEN IntV("0")
                 ELSE IF x = "alpn" THEN ListV(<<StrV("h3")>>)
                 ELSE StrV("v")])

Candidates ==
    {Candidate(n, t, s, p, u, h) :
        n \in NameVals, t \in TypeVals, s \in ServerVals, p \in PortVals, u \in UdpVals, h \in HintSets}

InitFields ==
    /\ pc = "config"
    /\ proxy \in Candidates
    /\ hashseed \in HashSeeds
    /\ all_proxies = <<>>
    /\ unique_proxies = <<>>
    /\ seen = {}
    /\ k = 1
    /\ fs = NoneV
    /\ IdleAgg
    /\ IdleExt

NextFields == Sanitize \/ Complete

SpecFields == InitFields /\ [][NextFields]_vars

(***************************************************************************)
(* The protocol decoders: parse_ss, parse_vmess, parse_trojan,             *)
(* parse_vless, parse_hysteria2 and parse_proxy_url.  A text is a sequence *)
(* of tokens: the separators "#", "@", "?", ":" and "&" are tokens of      *)
(* their own, every other token is a run of characters holding none of     *)
(* them.                                                                   *)
(***************************************************************************)
\* sep in s
Has(s, sep) == \E j \in 1..Len(s) : s[j] = sep

\* s.split(sep, 1)[0] and s.split(sep, 1)[1], for sep in s
FirstAt(s, sep) == CHOOSE j \in 1..Len(s) : s[j] = sep /\ \A j2 \in 1..(j - 1) : s[j2] # sep
Before(s, sep) == SubSeq(s, 1, FirstAt(s, sep) - 1)
After(s, sep) == SubSeq(s, FirstAt(s, sep) + 1, Len(s))

\* the characters of the tokens, as one str
RECURSIVE Join(_)
Join(s) == IF s = <<>> THEN "" ELSE Head(s) \o Join(Tail(s))

\* an exception raised inside a try block
Raise(exc) == [t |-> "raise", exc |-> exc]

\* urllib.parse.unquote: percent escapes are replaced by the characters they stand for
UnquoteToken(tok) == IF tok = "n%20a" THEN "n a" ELSE tok
unquote(s) == Join([j \in 1..Len(s) |-> UnquoteToken(s[j])])

\* int(text): decimal digits, with leading zeros, sign or blanks; anything else raises
IntTexts == [x \in {"8388", "443", "0443", "+443", "0"} |->
                IF x \in {"0443", "+443"} THEN "443" ELSE x]
ToInt(text) == IF text \in DOMAIN IntTexts THEN IntV(IntTexts[text]) ELSE Raise("ValueError")

\* int(value) of a JSON value
IntOf(value) ==
    CASE value.t = "int" -> value
      [] value.t = "str" -> ToInt(value.v)
      [] OTHER -> Raise("TypeError")

\* the parameters of a query string: name and value of each "name=value" token
Params ==
    ("sni=s.example" :> <<"sni", "s.example">>) @@ ("sni=" :> <<"sni", "">>)
    @@ ("allowInsecure=1" :> <<"allowInsecure", "1">>) @@ ("insecure=1" :> <<"insecure", "1">>)
    @@ ("security=tls" :> <<"security", "tls">>) @@ ("alpn=h3,h2" :> <<"alpn", "h3,h2">>)

\* parse_qs(query).get(key, [default])[0]: parameters with a blank value are left out
QueryGet(query, key, default) ==
    LET hits == SelectSeq(query, LAMBDA tok : /\ tok \in DOMAIN Params
                                               /\ Params[tok][1] = key
                                               /\ Params[tok][2] # "")
    IN IF hits = <<>> THEN default ELSE Params[hits[1]][2]

\* 'h3,h2'.split(',')
SplitComma(text) == IF text = "h3,h2" THEN <<StrV("h3"), StrV("h2")>> ELSE <<StrV(text)>>

\* base64.b64decode(data).decode('utf-8', errors='ignore') of the texts that occur:
\* the encodings of "aes:pw", of "aes" and of "aes:pw@h.example:8388", a text that decodes
\* to nothing, and the encodings of the VMess JSON documents
Base64Texts ==
    ("YWVzOnB3" :> <<"aes", ":", "pw">>) @@ ("YWVz" :> <<"aes">>) @@ ("pw" :> <<>>)
    @@ ("YWVzOnB3QGg" :> <<"aes", ":", "pw", "@", "h.example", ":", "8388">>)
    @@ ("eyJ-full" :> <<"{full}">>) @@ ("eyJ-bare" :> <<"{bare}">>)
    @@ ("eyJ-port-x" :> <<"{port-x}">>) @@ ("eyJ-blank" :> <<"{blank}">>)
    @@ ("WzFd" :> <<"[1]">>) @@ ("bm90IGpzb24" :> <<"not json">>)

\* safe_decode_base64: None for no data and for data neither decoder accepts
safe_decode_base64(data) ==
    IF data = <<>> THEN NoneV
    ELSE IF Join(data) \in DOMAIN Base64Texts THEN ListV(Base64Texts[Join(data)])
    ELSE NoneV

\* json.loads of the texts that occur
JsonTexts ==
    ("{full}" :> DictV([ps |-> StrV("v"), add |-> StrV("h.example"), port |-> StrV("443"),
                        id |-> StrV("u1"), aid |-> StrV("0"), net |-> StrV("ws"),
                        tls |-> StrV("tls"), path |-> StrV("/p"), host |-> StrV("w.example")]))
    @@ ("{bare}" :> DictV([add |-> StrV("h.example"), port |-> IntV("443"), id |-> StrV("u1")]))
    @@ ("{port-x}" :> DictV([ps |-> StrV("v"), add |-> StrV("h.example"), port |-> StrV("x"),
                            id |-> StrV("u1")]))
    @@ ("{blank}" :> DictV([ps |-> StrV(""), add |-> StrV(""), port |-> StrV("443"),
                           id |-> StrV("")]))
    @@ ("[1]" :> ListV(<<IntV("1")>>))

JsonLoads(text) ==
    IF Join(text) \in DOMAIN JsonTexts THEN JsonTexts[Join(text)] ELSE Raise("JSONDecodeError")

\* the number of characters of "scheme://"
PrefixLen == [ss |-> 5, vmess |-> 8, trojan |-> 9, vless |-> 8, hysteria2 |-> 12]

\* url[n:] of a URL of the given scheme: the text after the prefix or, when n is one
\* short of the prefix, that text after the last "/" of the prefix
Skip(url, n) ==
    IF n >= PrefixLen[url.scheme] THEN url.rest ELSE <<"/">> \o url.rest

\* a try block without the except clause
TryNothing(result) == result

\* "try: ... except Exception: return None"
Try(result) == IF result.t = "raise" THEN NoneV ELSE result

\* a name rule in which the fragment comes before the label
UriNameFragmentFirst(remark, name, scheme, server, port) ==
    IF name # "" THEN name
    ELSE IF Truthy(remark) THEN remark.v \o "-" \o scheme \o "-" \o server \o ":" \o Fmt(port)
    ELSE scheme \o "-" \o server \o ":" \o Fmt(port)

\* the name of a node decoded from a URI: label and fragment, label and default
\* name, fragment, default name
UriName(remark, name, scheme, server, port) ==
    IF Truthy(remark) /\ name # "" THEN remark.v \o "-" \o name
    ELSE IF Truthy(remark) THEN remark.v \o "-" \o scheme \o "-" \o server \o ":" \o Fmt(port)
    ELSE IF name # "" THEN name
    ELSE scheme \o "-" \o server \o ":" \o Fmt(port)

\* the parts every decoder but the VMess one cuts the URL into: fragment, the text
\* before and after the first "@", query, server and port text
Cut(url, n) ==
    LET parts(u0, u1, server_part, server_port_part) ==
            [name |-> IF Has(u0, "#") THEN unquote(After(u0, "#")) ELSE "",
             url |-> u1,
             auth |-> IF Has(u1, "@") THEN Before(u1, "@") ELSE <<>>,
             query |-> IF Has(server_part, "?") THEN After(server_part, "?") ELSE <<>>,
             has_port |-> Has(server_port_part, ":"),
             server |-> IF Has(server_port_part, ":")
                        THEN Join(Before(server_port_part, ":"))
                        ELSE Join(server_port_part),
             port |-> IF Has(server_port_part, ":")
                      THEN ToInt(Join(After(server_port_part, ":")))
                      ELSE IntV("443")]
        \* server_port_part = server_part.split('?', 1)[0]
        at_query(u0, u1, server_part) ==
            parts(u0, u1, server_part,
                  IF Has(server_part, "?") THEN Before(server_part, "?") ELSE server_part)
        \* server_part = url.split('@', 1)[1]
        at_auth(u0, u1) == at_query(u0, u1, IF Has(u1, "@") THEN After(u1, "@") ELSE u1)
        \* url, name = url.split('#', 1)
        at_fragment(u0) == at_auth(u0, IF Has(u0, "#") THEN Before(u0, "#") ELSE u0)
    IN at_fragment(Skip(url, n))

\* d with the keys of e added
With(d, e) == [x \in DOMAIN d \cup DOMAIN e |-> IF x \in DOMAIN e THEN e[x] ELSE d[x]]

\* if cond: config[key] = value, for the keys and values of e
WithIf(cond, d, e) == IF cond THEN With(d, e) ELSE d

parse_hysteria2(url, remark) ==
    LET decode(c) ==
            LET insecure == QueryGet(c.query, "insecure", "0") = "1"
                            \/ QueryGet(c.query, "allowInsecure", "0") = "1"
                config == [name |-> StrV(UriName(remark, c.name, "Hysteria2", c.server, c.port)),
                           type |-> StrV("hysteria2"), server |-> StrV(c.server), port |-> c.port,
                           password |-> StrV(Join(c.auth)), udp |-> PyTrue]
                config1 == WithIf(QueryGet(c.query, "sni", "") # "", config,
                                  [sni |-> StrV(QueryGet(c.query, "sni", ""))])
                config2 == WithIf(insecure, config1, ("skip-cert-verify" :> PyTrue))
                config3 == WithIf(QueryGet(c.query, "alpn", "") # "", config2,
                                  [alpn |-> ListV(SplitComma(QueryGet(c.query, "alpn", "")))])
            IN Try(IF ~Has(c.url, "@") THEN NoneV
                   ELSE IF c.port.t = "raise" THEN c.port
                   ELSE ensure_proxy_required_fields(clean_config(DictV(config3))))
    IN decode(Cut(url, 11))

\* parse_ss: the credentials are the Base64 text before the "@" (when the first decoding
\* gives no "method:password" the second one, of the same text, gives none either)
parse_ss(url, remark) ==
    LET decode(c) ==
            LET decoded == safe_decode_base64(IF Has(c.url, "@") THEN Before(c.url, "@") ELSE c.url)
            IN Try(IF ~(Truthy(decoded) /\ Has(decoded.v, ":")) THEN NoneV
                   ELSE IF ~c.has_port THEN NoneV
                   ELSE IF c.port.t = "raise" THEN c.port
                   ELSE ensure_proxy_required_fields(clean_config(DictV(
                            [name |-> StrV(UriName(remark, c.name, "SS", c.server, c.port)),
                             type |-> StrV("ss"), server |-> StrV(c.server), port |-> c.port,
                             cipher |-> StrV(Join(Before(decoded.v, ":"))),
                             password |-> StrV(Join(After(decoded.v, ":"))), udp |-> PyTrue]))))
    IN decode(Cut(url, 5))

\* vmess_config.get(key), None and '' counting as not given
Given(d, key) == Truthy(Get(d, key, NoneV))

parse_vmess(url, remark) ==
    LET \* the config written from the loaded JSON and its two numbers
        node(vmess_config, port, alterId) ==
            LET add == Get(vmess_config, "add", StrV("unknown"))
                original_name == Get(vmess_config, "ps", StrV("VMess-" \o Fmt(add)))
                name == IF Truthy(remark) THEN StrV(remark.v \o "-" \o Fmt(original_name))
                        ELSE original_name
                config == [name |-> name, type |-> StrV("vmess"),
                           server |-> Get(vmess_config, "add", StrV("")), port |-> port,
                           uuid |-> Get(vmess_config, "id", StrV("")), alterId |-> alterId,
                           cipher |-> Get(vmess_config, "scy", StrV("auto")), udp |-> PyTrue]
                config1 == WithIf(Get(vmess_config, "tls", NoneV) = StrV("tls"), config,
                                  ("tls" :> PyTrue) @@
                                  ("skip-cert-verify" :>
                                      IF Get(vmess_config, "allowInsecure", NoneV)
                                            \in {PyTrue, StrV("true"), StrV("1")}
                                      THEN PyTrue ELSE PyFalse))
                sni == IF Given(vmess_config, "sni") THEN Get(vmess_config, "sni", NoneV)
                       ELSE Get(vmess_config, "host", NoneV)
                config2 == WithIf(Truthy(sni), config1, [servername |-> sni])
                network == Get(vmess_config, "net", StrV("tcp"))
                ws_path == IF Given(vmess_config, "path")
                           THEN [path |-> vmess_config.v["path"]] ELSE <<>>
                ws_opts == WithIf(Given(vmess_config, "host"), ws_path,
                                  [headers |-> DictV([Host |-> vmess_config.v["host"]])])
                config3 == WithIf(network # StrV("tcp"), config2, [network |-> network])
                config4 == WithIf(network = StrV("ws") /\ DOMAIN ws_opts # {}, config3,
                                  ("ws-opts" :> DictV(ws_opts)))
            IN ensure_proxy_required_fields(clean_config(DictV(config4)))
        \* int(vmess_config.get('port', 443)) and int(vmess_config.get('aid', 0))
        numbers(vmess_config, port, alterId) ==
            IF port.t = "raise" THEN port
            ELSE IF alterId.t = "raise" THEN alterId
            ELSE node(vmess_config, port, alterId)
        \* vmess_config = json.loads(decoded)
        fields(vmess_config) ==
            IF vmess_config.t = "raise" THEN vmess_config
            ELSE IF vmess_config.t # "dict" THEN Raise("AttributeError")
            ELSE numbers(vmess_config, IntOf(Get(vmess_config, "port", IntV("443"))),
                         IntOf(Get(vmess_config, "aid", IntV("0"))))
        \* decoded = safe_decode_base64(encoded)
        decode(decoded) == IF ~Truthy(decoded) THEN NoneV ELSE fields(JsonLoads(decoded.v))
    IN Try(decode(safe_decode_base64(Skip(url, 8))))

parse_trojan(url, remark) ==
    LET decode(c) ==
            LET sni == QueryGet(c.query, "sni", "")
            IN Try(IF ~Has(c.url, "@") THEN NoneV
                   ELSE IF c.port.t = "raise" THEN c.port
                   ELSE ensure_proxy_required_fields(clean_config(DictV(
                            [name |-> StrV(UriName(remark, c.name, "Trojan", c.server, c.port)),
                             type |-> StrV("trojan"), server |-> StrV(c.server), port |-> c.port,
                             password |-> StrV(Join(c.auth)),
                             sni |-> StrV(IF sni # "" THEN sni ELSE c.server),
                             udp |-> PyTrue]
                            @@ ("skip-cert-verify" :>
                                   IF QueryGet(c.query, "allowInsecure", "0") = "1"
                                   THEN PyTrue ELSE PyFalse)))))
    IN decode(Cut(url, 9))

parse_vless(url, remark) ==
    LET decode(c) ==
            LET sni == QueryGet(c.query, "sni", "")
                config == [name |-> StrV(UriName(remark, c.name, "VLESS", c.server, c.port)),
                           type |-> StrV("vless"), server |-> StrV(c.server), port |-> c.port,
                           uuid |-> StrV(Join(c.auth)), udp |-> PyTrue,
                           servername |-> StrV(IF sni # "" THEN sni ELSE c.server)]
                config1 == WithIf(QueryGet(c.query, "security", "") \in {"tls", "xtls"}, config,
                                  ("tls" :> PyTrue) @@
                                  ("skip-cert-verify" :>
                                      IF QueryGet(c.query, "allowInsecure", "0") = "1"
                                      THEN PyTrue ELSE PyFalse))
            IN Try(IF ~Has(c.url, "@") THEN NoneV
                   ELSE IF c.port.t = "raise" THEN c.port
                   ELSE ensure_proxy_required_fields(clean_config(DictV(config1))))
    IN decode(Cut(url, 8))

\* parse_proxy_url of a line that holds a URL (scheme and the text after "scheme://")
\* or anything else
parse_proxy_url(url, remark) ==
    IF url.t # "url" THEN NoneV
    ELSE CASE url.scheme = "hysteria2" -> parse_hysteria2(url, remark)
           [] url.scheme = "ss"        -> parse_ss(url, remark)
           [] url.scheme = "vmess"     -> parse_vmess(url, remark)
           [] url.scheme = "trojan"    -> parse_trojan(url, remark)
           [] url.scheme = "vless"     -> parse_vless(url, remark)
           [] OTHER                    -> NoneV

\* The URLs and lines the decoders are tried on, written from their parts.
Url(scheme, rest) == [t |-> "url", scheme |-> scheme, rest |-> rest]
Schemes == {"ss", "trojan", "vless", "hysteria2"}
Auths == {<<"YWVzOnB3">>, <<"YWVz">>, <<"pw">>, <<"YWVzOnB3QGg">>}
Hosts == {<<"h.example">>, <<>>}
Ports == {<<>>, <<":", "8388">>, <<":", "0443">>, <<":", "x">>, <<":">>}
Queries == {<<>>, <<"?", "sni=s.example">>, <<"?", "allowInsecure=1", "&", "security=tls">>,
            <<"?", "insecure=1", "&", "alpn=h3,h2", "&", "sni=">>}
Fragments == {<<>>, <<"#">>, <<"#", "n">>, <<"#", "n%20a">>, <<"#", "a", "@", "b">>,
              <<"#", "a", "#", "b", ":", "c", "?", "d">>}
VmessTexts == {<<"eyJ-full">>, <<"eyJ-bare">>, <<"eyJ-port-x">>, <<"eyJ-blank">>, <<"WzFd">>,
               <<"bm90IGpzb24">>, <<"%">>, <<>>}
Remarks == {NoneV, StrV(""), StrV("L")}

\* a URL written from its parts, with the host and the fragment it was written from
Written(scheme, rest, host, fragment) ==
    [url |-> Url(scheme, rest \o fragment), host |-> Join(host), fragment |-> fragment]

\* URLs of the four schemes with an "@", URLs of the four schemes that hold nothing but
\* one Base64 text, VMess URLs, a URL of another scheme and a line that is no URL
UriInputs ==
    {Written(scheme, auth \o <<"@">> \o host \o port \o query, host, fragment) :
        scheme \in Schemes, auth \in Auths \cup {<<>>}, host \in Hosts, port \in Ports,
        query \in Queries, fragment \in Fragments}
    \cup {Written(scheme, auth, <<>>, fragment) :
             scheme \in Schemes, auth \in Auths, fragment \in Fragments}
    \cup {Written("vmess", text, <<>>, <<>>) : text \in VmessTexts}
    \cup {Written("http", <<"h.example">>, <<"h.example">>, <<>>),
          [url |-> [t |-> "text", v |-> "junk"], host |-> "", fragment |-> <<>>]}

\* parse_proxy_url(url, remark) is called and returns
DecodeUrl ==
    /\ pc = "url"
    /\ output' = parse_proxy_url(input.url, input.remark)
    /\ pc' = "decoded"
    /\ UNCHANGED <<web, all_proxies, unique_proxies, seen, k, fs, proxy, hashseed, document,
                   input>>
    /\ UNCHANGED aggVars

InitUri ==
    /\ pc = "url"
    /\ \E w \in UriInputs, remark \in Remarks :
          input = [url |-> w.url, remark |-> remark, host |-> w.host, fragment |-> w.fragment]
    /\ output = NoneV
    /\ document = NoneV
    /\ fs = NoneV
    /\ proxy = NoneV
    /\ hashseed \in HashSeeds
    /\ all_proxies = <<>>
    /\ unique_proxies = <<>>
    /\ seen = {}
    /\ k = 1
    /\ IdleAgg

NextUri == DecodeUrl

SpecUri == InitUri /\ [][NextUri]_vars

(***************************************************************************)
(* Subscription text.  A text is the sequence of its lines; a line is      *)
(* blank, a comment ("# ..."), a key ("key:"), a pair ("key: value", after *)
(* a dash or not), a flow mapping after a dash ("- {key: value, ...}"), a  *)
(* URL, or another run of characters ("junk", or "@bad", which no YAML     *)
(* document may hold).  indent counts the blanks the line starts with.     *)
(***************************************************************************)
Line(form, indent, dash, pairs, url) ==
    [form |-> form, indent |-> indent, dash |-> dash, pairs |-> pairs, url |-> url]

BlankLine == Line("blank", 0, FALSE, <<>>, NoneV)
CommentLine == Line("comment", 0, FALSE, <<>>, NoneV)
KeyLine(key) == Line("key", 0, FALSE, <<<<key, "">>>>, NoneV)
PairLine(indent, dash, key, value) == Line("pair", indent, dash, <<<<key, value>>>>, NoneV)
FlowLine(indent, pairs) == Line("flow", indent, TRUE, pairs, NoneV)
UrlLine(url) == Line("url", 0, FALSE, <<>>, url)
JunkLine == Line("junk", 0, FALSE, <<>>, NoneV)
BadLine == Line("bad", 0, FALSE, <<>>, NoneV)

\* the text of a subscription
Text(lines) == [lines |-> lines]

\* line.strip() is not empty and does not start with '#'
Significant(line) == line.form \notin {"blank", "comment"}

\* ':' in line
HasColon(line) == line.form \in {"key", "pair", "flow", "url"}

\* the texts of digits only
DigitTexts == {"1", "443", "7890", "8388"}

\* the value YAML resolves a plain scalar to
YamlScalar(text) ==
    IF text \in DigitTexts THEN IntV(text)
    ELSE IF text = "true" THEN PyTrue
    ELSE IF text = "false" THEN PyFalse
    ELSE IF text = "[]" THEN ListV(<<>>)
    ELSE IF text = "" THEN NoneV
    ELSE StrV(text)

\* the value the hand-written parser gives the text after the colon
Coerce(text) ==
    IF text = "true" THEN PyTrue
    ELSE IF text = "false" THEN PyFalse
    ELSE IF text \in DigitTexts THEN IntV(text)
    ELSE StrV(text)

\* the dict of the given keys and texts, a later key replacing an earlier one
DictOf(pairs, value(_)) ==
    LET keys == {pairs[j][1] : j \in 1..Len(pairs)}
    IN IF Cardinality(keys) = Len(pairs)
       THEN [key \in keys |-> value(pairs[CHOOSE j \in 1..Len(pairs) : pairs[j][1] = key][2])]
       ELSE [key \in keys |->
                value(pairs[CHOOSE j \in 1..Len(pairs) :
                               /\ pairs[j][1] = key
                               /\ \A j2 \in (j + 1)..Len(pairs) : pairs[j2][1] # key][2])]

\* yaml.safe_load of a flow mapping
FlowDict(line) == DictV(DictOf(line.pairs, YamlScalar))

\* the line that ends the block mapping started on the dash line s[j]
ItemEnd(s, j) ==
    IF \E e \in (j + 1)..Len(s) : s[e].dash \/ s[e].indent <= s[j].indent
    THEN CHOOSE e \in (j + 1)..Len(s) :
            /\ s[e].dash \/ s[e].indent <= s[j].indent
            /\ \A e2 \in (j + 1)..(e - 1) : ~(s[e2].dash \/ s[e2].indent <= s[j].indent)
    ELSE Len(s) + 1

\* the mapping written on the dash line s[j] and the lines that continue it
ItemDict(s, j) ==
    IF s[j].form = "flow" THEN FlowDict(s[j])
    ELSE DictV(DictOf(s[j].pairs \o [x \in 1..(ItemEnd(s, j) - j - 1) |-> s[j + x].pairs[1]],
                      YamlScalar))

\* the mappings of the dash lines among s[lo..hi]
ListItems(s, lo, hi) ==
    LET starts == SelectSeq([x \in 1..(hi - lo + 1) |-> lo + x - 1], LAMBDA j : s[j].dash)
    IN [x \in 1..Len(starts) |-> ItemDict(s, starts[x])]

\* the lines of a mapping at the top of a document
IsTop(line) == line.indent = 0 /\ ~line.dash

\* the last top line before s[j] (0 when there is none)
TopBefore(s, j) ==
    IF \E t \in 1..(j - 1) : IsTop(s[t])
    THEN CHOOSE t \in 1..(j - 1) : IsTop(s[t]) /\ \A t2 \in (t + 1)..(j - 1) : ~IsTop(s[t2])
    ELSE 0

\* the value of the top line s[j]: the scalar after the colon or the list under the key
TopValue(s, j) ==
    IF s[j].form = "pair" THEN YamlScalar(s[j].pairs[1][2])
    ELSE LET e == IF \E t \in (j + 1)..Len(s) : IsTop(s[t])
                  THEN CHOOSE t \in (j + 1)..Len(s) :
                          IsTop(s[t]) /\ \A t2 \in (j + 1)..(t - 1) : ~IsTop(s[t2])
                  ELSE Len(s) + 1
         IN IF e = j + 1 THEN NoneV ELSE ListV(ListItems(s, j + 1, e - 1))

\* s[j] continues the block mapping of the line before it
Continues(s, j) ==
    /\ j > 1
    /\ s[j].form = "pair" /\ ~s[j].dash /\ s[j].indent > 0
    /\ s[j - 1].form = "pair"
    /\ IF s[j - 1].dash THEN s[j].indent = s[j - 1].indent + 2
       ELSE s[j].indent = s[j - 1].indent

\* the significant lines s are a list of mappings
IsYamlList(s) ==
    /\ s # <<>>
    /\ \A j \in 1..Len(s) :
          \/ s[j].dash /\ s[j].indent = 0 /\ s[j].form \in {"pair", "flow"}
          \/ Continues(s, j)

\* the significant lines s are a mapping of settings and of lists of mappings
IsYamlDict(s) ==
    /\ s # <<>>
    /\ IsTop(s[1])
    /\ \A j \in 1..Len(s) :
          \/ IsTop(s[j]) /\ s[j].form \in {"key", "pair"}
          \/ /\ s[j].dash /\ s[j].form \in {"pair", "flow"}
             /\ TopBefore(s, j) > 0
             /\ s[TopBefore(s, j)].form = "key"
             /\ \A j2 \in (TopBefore(s, j) + 1)..(j - 1) : s[j2].dash => s[j2].indent = s[j].indent
          \/ Continues(s, j)

\* the lines are scalars that fold into one
IsYamlScalar(lines) ==
    /\ \A j \in 1..Len(lines) : lines[j].form \in {"url", "junk", "blank", "comment"}
    /\ \A j \in 1..Len(lines) :
          lines[j].form = "comment" =>
              ~(\E j1 \in 1..(j - 1), j2 \in (j + 1)..Len(lines) :
                   Significant(lines[j1]) /\ Significant(lines[j2]))

\* yaml.safe_load(content) of the texts written with the lines above: None for a text
\* without a significant line, a str, a list of mappings, a mapping, or an error
safe_load(lines) ==
    LET s == SelectSeq(lines, Significant)
        tops == SelectSeq([j \in 1..Len(s) |-> j], LAMBDA j : IsTop(s[j]))
    IN IF s = <<>> THEN NoneV
       ELSE IF IsYamlScalar(lines) THEN StrV("text")
       ELSE IF IsYamlList(s) THEN ListV(ListItems(s, 1, Len(s)))
       ELSE IF IsYamlDict(s)
            THEN DictV(DictOf([x \in 1..Len(tops) |-> <<s[tops[x]].pairs[1][1], tops[x]>>],
                              LAMBDA j : TopValue(s, j)))
       ELSE Raise("YAMLError")

(***************************************************************************)
(* is_clash_yaml_content, the structured extractors and                    *)
(* process_subscription_content.                                           *)
(***************************************************************************)
FirstLines == 5      \* content.strip().split('\n')[:5]
NodeLines == 20      \* lines[:20]
MinNodeLines == 2    \* yaml_node_count >= 2
MinDashCount == 2    \* dash_count >= 2

\* clash_keywords, as the keys whose "key:" holds one of them
KeywordKeys == {"proxies", "proxy-groups", "rules", "mixed-port", "port"}

\* keyword in line
Mentions(line, keys) == \E j \in 1..Len(line.pairs) : line.pairs[j][1] \in keys

\* content.strip().split('\n'): the lines from the first to the last that is not blank
StripLines(lines) ==
    LET full == {j \in 1..Len(lines) : lines[j].form # "blank"}
    IN IF lines = <<>> THEN <<>>
       ELSE IF lines[1].form # "blank" /\ lines[Len(lines)].form # "blank" THEN lines
       ELSE IF full = {} THEN <<>>
       ELSE SubSeq(lines, CHOOSE j \in full : \A j2 \in full : j <= j2,
                          CHOOSE j \in full : \A j2 \in full : j >= j2)

\* twice the dash_count of the lines after the first line that reads "proxies:"
DashCount2(lines) ==
    LET heads == {j \in 1..Len(lines) :
                     lines[j].form = "key" /\ lines[j].pairs[1][1] = "proxies"}
        first == CHOOSE j \in heads : \A j2 \in heads : j <= j2
        after == IF heads = {} THEN {} ELSE (first + 1)..Len(lines)
    IN 2 * Cardinality({j \in after : lines[j].dash})
       + Cardinality({j \in after : /\ ~lines[j].dash
                                    /\ Significant(lines[j])
                                    /\ lines[j].indent >= 2
                                    /\ HasColon(lines[j])})

is_clash_yaml_content(content) ==
    LET lines == StripLines(content.lines)
    IN \/ \E j \in 1..MinOf(FirstLines, Len(lines)) : Mentions(lines[j], KeywordKeys)
       \/ Cardinality({j \in 1..MinOf(NodeLines, Len(lines)) : lines[j].form = "flow"})
             >= MinNodeLines
       \/ /\ \E j \in 1..Len(lines) : Mentions(lines[j], {"proxies"})
          /\ DashCount2(lines) >= 2 * MinDashCount

\* str.upper() of the types that occur
Upper(text) ==
    CASE text = "ss" -> "SS"
      [] text = "trojan" -> "TROJAN"
      [] text = "select" -> "SELECT"
      [] OTHER -> text

\* a labelling that puts the label after the name
LabelNameAfter(node, remark) ==
    IF Truthy(remark) /\ "name" \in DOMAIN node.v
    THEN DictV([node.v EXCEPT !["name"] = StrV(@.v \o "-" \o remark.v)])
    ELSE node

\* the name a decoder gives a node of a labelled source: f"{remark}-{name}"
LabelName(node, remark) ==
    IF Truthy(remark) /\ "name" \in DOMAIN node.v
    THEN DictV([node.v EXCEPT !["name"] = StrV(remark.v \o "-" \o @.v)])
    ELSE node

\* what every extractor does with a mapping it keeps: the label goes before the
\* name, udp is set where it is missing, the node is cleaned and completed
Keep(node_data, remark) ==
    ensure_proxy_required_fields(clean_config(SetDefault(LabelName(node_data, remark),
                                                         "udp", PyTrue)))

\* 'name' in node and 'server' in node and 'type' in node
HasRequired(node) == {"name", "server", "type"} \subseteq DOMAIN node.v

\* parse_clash_yaml_node of a line "- {...}" (the flow mappings of the model are all
\* well-formed, so yaml.safe_load(line) gives a dict)
parse_clash_yaml_node(line, remark) ==
    LET node_data == FlowDict(line)
        original_name == Get(node_data, "name", StrV(""))
        default_name == remark.v \o "-" \o Upper(Fmt(Get(node_data, "type", StrV(""))))
                        \o "-" \o Fmt(Get(node_data, "server", StrV("unknown")))
                        \o ":" \o Fmt(Get(node_data, "port", StrV("")))
        named == IF Truthy(remark) /\ Truthy(original_name) THEN LabelName(node_data, remark)
                 ELSE IF Truthy(remark) THEN DictV(With(node_data.v, [name |-> StrV(default_name)]))
                 ELSE node_data
    IN Try(IF ~HasRequired(node_data) THEN NoneV
           ELSE ensure_proxy_required_fields(clean_config(SetDefault(named, "udp", PyTrue))))

\* parse_clash_yaml_content once yaml.safe_load(content) has given config: the mappings
\* of the proxies list of a document
ClashProxies(config, remark) ==
    LET proxies == SelectSeq(config.v["proxies"].v, LAMBDA item : item.t = "dict")
    IN IF config.t # "dict" THEN <<>>
       ELSE IF ~("proxies" \in DOMAIN config.v /\ config.v["proxies"].t = "list") THEN <<>>
       ELSE [j \in 1..Len(proxies) |-> Keep(proxies[j], remark)]

parse_clash_yaml_content(content, remark) == ClashProxies(safe_load(content.lines), remark)

\* the state of the hand-written parser after one more line
HandStep(st, line, remark) ==
    IF ~Significant(line) THEN st
    ELSE IF line.dash
    THEN [proxies |-> IF DOMAIN st.current_node # {}
                      THEN Append(st.proxies, Keep(DictV(st.current_node), remark))
                      ELSE st.proxies,
          current_node |-> IF line.form = "flow" THEN FlowDict(line).v ELSE <<>>,
          in_node |-> TRUE,
          indent_level |-> line.indent]
    ELSE IF st.in_node /\ line.indent > st.indent_level /\ line.form \in {"key", "pair"}
    THEN [st EXCEPT !.current_node = With(@, line.pairs[1][1] :> Coerce(line.pairs[1][2]))]
    ELSE st

RECURSIVE HandFrom(_, _, _, _)
HandFrom(st, lines, j, remark) ==
    IF j > Len(lines) THEN st
    ELSE LET next == HandStep(st, lines[j], remark)
         IN IF Len(next.proxies) >= Len(st.proxies) THEN HandFrom(next, lines, j + 1, remark)
            ELSE next

\* the line-by-line parser extract_yaml_proxies_from_content falls back on
HandParse(content, remark) ==
    LET st == HandFrom([proxies |-> <<>>, current_node |-> <<>>, in_node |-> FALSE,
                        indent_level |-> 0], content.lines, 1, remark)
    IN IF DOMAIN st.current_node # {}
       THEN Append(st.proxies, Keep(DictV(st.current_node), remark))
       ELSE st.proxies

\* extract_yaml_proxies_from_content once yaml.safe_load(content) has given config (the
\* call of parse_clash_yaml_content loads the same text again, and gets the same)
YamlProxies(config, content, remark) ==
    LET nodes == SelectSeq(config.v, LAMBDA node : node.t = "dict" /\ HasRequired(node))
    IN IF config.t = "raise" THEN HandParse(content, remark)
       ELSE IF config.t = "dict" /\ "proxies" \in DOMAIN config.v
       THEN ClashProxies(config, remark)
       ELSE IF config.t = "list" THEN [j \in 1..Len(nodes) |-> Keep(nodes[j], remark)]
       ELSE <<>>

extract_yaml_proxies_from_content(content, remark) ==
    YamlProxies(safe_load(content.lines), content, remark)

\* what the line loop of process_subscription_content gets from one line
LineNode(line, remark) ==
    LET \* proxy = parse_proxy_url(line, remark)
        node(decoded) ==
            IF decoded # NoneV THEN decoded
            ELSE IF line.form = "flow" THEN parse_clash_yaml_node(line, remark)
            ELSE NoneV
    IN IF ~Significant(line) THEN NoneV
       ELSE node(parse_proxy_url(IF line.form = "url" THEN line.url ELSE [t |-> "text"],
                                 remark))

\* the line loop of process_subscription_content
ByLine(content, remark) ==
    SelectSeq([j \in 1..Len(content.lines) |-> LineNode(content.lines[j], remark)],
              LAMBDA node : node # NoneV)

\* a variant that stops after the extractors whenever the text is classified
ProcessWithoutFallThrough(content, remark) ==
    LET nodes(clash_proxies, yaml_proxies) ==
            IF is_clash_yaml_content(content)
            THEN (IF clash_proxies # <<>> THEN clash_proxies ELSE yaml_proxies)
            ELSE ByLine(content, remark)
    IN IF content.lines = <<>> THEN <<>>
       ELSE nodes(parse_clash_yaml_content(content, remark),
                  extract_yaml_proxies_from_content(content, remark))

\* the two extractors load the same text, so it is loaded once here
process_subscription_content(content, remark) ==
    LET \* what is returned when the two extractors have given these lists
        nodes(clash_proxies, yaml_proxies) ==
            IF is_clash_yaml_content(content) /\ clash_proxies # <<>> THEN clash_proxies
            ELSE IF is_clash_yaml_content(content) /\ yaml_proxies # <<>> THEN yaml_proxies
            ELSE ByLine(content, remark)
        extracted(config) == nodes(ClashProxies(config, remark),
                                   YamlProxies(config, content, remark))
    IN IF content.lines = <<>> THEN <<>> ELSE extracted(safe_load(content.lines))

(***************************************************************************)
(* The texts process_subscription_content is tried on: documents with a    *)
(* proxies list, bare lists of mappings, and texts of URLs, comments and   *)
(* other lines.                                                            *)
(***************************************************************************)
MaxItems == 2        \* mappings of a list
MaxLines == 3        \* lines of a text of URLs

\* a mapping with name, type, server and port, and mappings that lack some of them
FullItem(name, server) ==
    << <<"name", name>>, <<"type", "ss">>, <<"server", server>>, <<"port", "8388">> >>
ItemKinds ==
    {FullItem("a", "h1"), FullItem("b", "h2"),
     << <<"server", "h3">>, <<"type", "ss">>, <<"port", "8388">> >>,
     << <<"name", "c">>, <<"type", "trojan">>, <<"password", "pw">>, <<"port", "443">> >>,
     << <<"name", "d">>, <<"server", "h4">>, <<"cipher", "aes">>, <<"password", "pw">> >>,
     << <<"name", "e">> >>}

\* the lines of one mapping: "- {...}", or "- key: value" and its "key: value" lines
ItemLines(style, indent, item) ==
    IF style = "flow" THEN <<FlowLine(indent, item)>>
    ELSE <<PairLine(indent, TRUE, item[1][1], item[1][2])>>
         \o [x \in 1..(Len(item) - 1) |-> PairLine(indent + 2, FALSE, item[x + 1][1], item[x + 1][2])]

RECURSIVE ListLines(_, _, _)
ListLines(style, indent, items) ==
    IF items = <<>> THEN <<>>
    ELSE ItemLines(style, indent, Head(items)) \o ListLines(style, indent, Tail(items))

\* what a document starts with: nothing, a setting, or comments that fill the lines
\* the classifier looks for keywords in
Preambles ==
    {<<>>, <<PairLine(0, FALSE, "mixed-port", "7890")>>, [j \in 1..FirstLines |-> CommentLine]}

\* what a document ends with: nothing, a group, a list of nodes under another key, or
\* a line that makes the document invalid
Tails ==
    {<<>>,
     <<KeyLine("proxy-groups"), FlowLine(2, << <<"name", "G">>, <<"type", "select">> >>)>>,
     <<KeyLine("backup"), FlowLine(2, FullItem("z", "h9"))>>,
     <<BadLine>>}

WrittenText(kind, style, items, intact, lines) ==
    [content |-> Text(lines), kind |-> kind, style |-> style, items |-> items, intact |-> intact]

Documents ==
    {WrittenText("document", style, items, tail # <<BadLine>>,
              preamble
              \o (IF items = <<>> THEN <<PairLine(0, FALSE, "proxies", "[]")>>
                  ELSE <<KeyLine("proxies")>>)
              \o ListLines(style, 2, items) \o tail) :
        style \in {"flow", "block"}, items \in SeqsUpTo(ItemKinds, MaxItems),
        preamble \in Preambles, tail \in Tails}

BareLists ==
    {WrittenText("list", style, items, tail # <<BadLine>>,
              preamble \o ListLines(style, 0, items) \o tail) :
        style \in {"flow", "block"}, items \in SeqsUpTo(ItemKinds, MaxItems) \ {<<>>},
        preamble \in {<<>>, <<CommentLine>>}, tail \in {<<>>, <<BadLine>>}}

\* the lines of a text of URLs: a URL with a fragment, one whose port is no number, a
\* VMess URL without a name, a comment, a blank line, junk, two compact mappings and a
\* setting of a structured document
LineKinds ==
    {UrlLine(Url("ss", <<"YWVzOnB3", "@", "h.example", ":", "8388", "#", "n">>)),
     UrlLine(Url("trojan", <<"pw", "@", "h.example", ":", "x">>)),
     UrlLine(Url("vmess", <<"eyJ-blank">>)),
     CommentLine, BlankLine, JunkLine,
     FlowLine(0, FullItem("a", "h1")),
     FlowLine(0, << <<"name", "c">>, <<"type", "trojan">> >>),
     PairLine(0, FALSE, "mixed-port", "7890")}

LineTexts ==
    {WrittenText("lines", "", <<>>, TRUE, lines) : lines \in SeqsUpTo(LineKinds, MaxLines)}

\* process_subscription_content(content, remark) is called and returns
Process ==
    /\ pc \in {"text", "again"}
    /\ output' = process_subscription_content(input.content, input.remark)
    /\ pc' = "processed"
    /\ UNCHANGED <<web, all_proxies, unique_proxies, seen, k, fs, proxy, hashseed, document,
                   input>>
    /\ UNCHANGED aggVars

\* the script ends and is started again on the same text and label: another process,
\* with a salt of its own (output keeps what the run before returned)
Restart ==
    /\ pc = "processed"
    /\ hashseed' \in HashSeeds \ {hashseed}
    /\ pc' = "again"
    /\ UNCHANGED <<web, all_proxies, unique_proxies, seen, k, fs, proxy, document, input,
                   output>>
    /\ UNCHANGED aggVars

InitContent ==
    /\ pc = "text"
    /\ \E w \in Documents \cup BareLists \cup LineTexts, remark \in Remarks :
          input = [content |-> w.content, remark |-> remark, kind |-> w.kind,
                   style |-> w.style, items |-> w.items, intact |-> w.intact]
    /\ output = NoneV
    /\ document = NoneV
    /\ fs = NoneV
    /\ proxy = NoneV
    /\ hashseed \in HashSeeds
    /\ all_proxies = <<>>
    /\ unique_proxies = <<>>
    /\ seen = {}
    /\ k = 1
    /\ IdleAgg

NextContent == Process \/ Restart

SpecContent == InitContent /\ [][NextContent]_vars

(***************************************************************************)
(* fetch_subscription: up to three attempts at one URL.                    *)
(***************************************************************************)
FetchAttempts == 3       \* for attempt in range(3)
RequestTimeout == 30     \* timeout=30: seconds after which a request raises Timeout
TaskTimeout == 60        \* future.result(timeout=60)
ParallelThreshold == 5   \* use_parallel = total_count > 5
MaxWorkers == 10         \* max_workers=min(10, total_count)
MaxNodes == 200          \* all_nodes[:200]
GroupCap == 50           \* node_names[:50]

\* what one requests.get call meets: a response, or an exception of the named class
Resp(code, body) == [kind |-> "response", code |-> code, body |-> body]
Exc(cls) == [kind |-> cls]

\* the bases of the exception classes of the requests library
ExcBases ==
    [ReadTimeout |-> {"Timeout"}, ConnectTimeout |-> {"ConnectionError", "Timeout"},
     SSLError |-> {"ConnectionError"}, ConnectionError |-> {"RequestException"},
     Timeout |-> {"RequestException"}, RequestException |-> {"Exception"},
     ValueError |-> {"Exception"}, Exception |-> {}]

RECURSIVE IsInstance(_, _)
IsInstance(cls, of) == cls = of \/ \E b \in ExcBases[cls] : IsInstance(b, of)

\* the except clauses of the try statement, in source order
ExceptClauses == <<"Timeout", "ConnectionError", "SSLError", "Exception">>

\* a try statement that lists the SSLError clause before the ConnectionError clause
HandlerSSLFirst(cls) ==
    LET order == <<"Timeout", "SSLError", "ConnectionError", "Exception">>
    IN order[CHOOSE j \in 1..Len(order) :
              /\ IsInstance(cls, order[j])
              /\ \A j2 \in 1..(j - 1) : ~IsInstance(cls, order[j2])]

\* the clause that catches an exception of class cls: the first one that matches
Handler(cls) ==
    ExceptClauses[CHOOSE j \in 1..Len(ExceptClauses) :
                     /\ IsInstance(cls, ExceptClauses[j])
                     /\ \A j2 \in 1..(j - 1) : ~IsInstance(cls, ExceptClauses[j2])]

Success(content) == [content |-> content, success |-> TRUE, error |-> NoneV]
Failure(msg) == [content |-> NoneV, success |-> FALSE, error |-> StrV(msg)]

\* the state of a call before its first attempt; log is the history of what the requests met
FetchStart ==
    [attempt |-> 0, requests |-> 0, sleeps |-> <<>>, elapsed |-> 0, log |-> <<>>, ret |-> NoneV]

Return(st, r) == [st EXCEPT !.ret = r]

\* continue: the next attempt, or the statement after the loop
Continue(st) ==
    IF st.attempt + 1 < FetchAttempts
    THEN [st EXCEPT !.attempt = @ + 1]
    ELSE [st EXCEPT !.attempt = @ + 1, !.ret = Failure("failed after several attempts")]

\* seconds one request takes at least: a timed-out request takes the whole timeout
Cost(o) == IF o.kind \in {"Timeout", "ReadTimeout", "ConnectTimeout"} THEN RequestTimeout ELSE 0

\* a status check that gives up on the first 5xx answer
OnResponseNoRetry(st, o) ==
    IF o.code = 200 THEN Return(st, Success(o.body))
    ELSE Return(st, Failure("HTTP error: " \o ToString(o.code)))

\* the response status check of the try body
OnResponse(st, o) ==
    IF o.code = 200 THEN Return(st, Success(o.body))
    ELSE IF 500 <= o.code /\ o.code < 600 /\ st.attempt < 2 THEN Continue(st)
    ELSE Return(st, Failure("HTTP error: " \o ToString(o.code)))

\* "if attempt == 2: return None, False, msg" else "continue"
GiveUpOrRetry(st, msg) ==
    IF st.attempt = 2 THEN Return(st, Failure(msg)) ELSE Continue(st)

\* one pass of the loop body: o is what the request meets, o2 what the second
\* request of the SSLError clause meets
FetchStep(st, o, o2) ==
    LET delay == IF st.attempt > 0 THEN 2 ^ st.attempt ELSE 0
        s1 == [st EXCEPT !.sleeps = IF st.attempt > 0 THEN Append(@, delay) ELSE @,
                         !.requests = @ + 1,
                         !.elapsed = @ + delay + Cost(o),
                         !.log = Append(@, o)]
    IN IF o.kind = "response" THEN OnResponse(s1, o)
       ELSE CASE Handler(o.kind) = "Timeout" -> GiveUpOrRetry(s1, "request timed out")
              [] Handler(o.kind) = "ConnectionError" -> GiveUpOrRetry(s1, "connection error")
              [] Handler(o.kind) = "SSLError" ->
                    LET s2 == [s1 EXCEPT !.requests = @ + 1, !.elapsed = @ + Cost(o2),
                                         !.log = Append(@, o2)]
                    IN IF o2.kind = "response"
                       THEN (IF o2.code = 200 THEN Return(s2, Success(o2.body))
                             ELSE Return(s2, Failure("HTTP error: " \o ToString(o2.code))))
                       ELSE GiveUpOrRetry(s2, "SSL error")
              [] Handler(o.kind) = "Exception" -> GiveUpOrRetry(s1, "error")

\* the whole call, the j-th request meeting script[j]
RECURSIVE FetchFrom(_, _)
FetchFrom(st, script) ==
    IF st.ret # NoneV THEN st
    ELSE FetchFrom(FetchStep(st, script[st.attempt + 1], script[st.attempt + 1]), script)

fetch_subscription(script) == FetchFrom(FetchStart, script)

(***************************************************************************)
(* fetch_subscription on its own: every attempt meets any outcome.         *)
(***************************************************************************)
\* the compact line "- {name: ..., type: ..., server: ..., port: ...}" of a node
FlowOf(node) ==
    FlowLine(0, << <<"name", node.v["name"].v>>, <<"type", node.v["type"].v>>,
                   <<"server", node.v["server"].v>>, <<"port", node.v["port"].v>> >>)

\* a served body, in short: the text (empty or not) and the nodes it is written from
Body(text, nodes) == [text |-> text, nodes |-> nodes]

\* the text of a served body: one compact line for each node, or a line of junk
TextOf(body) ==
    Text(IF body.text = "" THEN <<>>
         ELSE IF body.nodes = <<>> THEN <<JunkLine>>
         ELSE [j \in 1..Len(body.nodes) |-> FlowOf(body.nodes[j])])

EmptyBody == Body("", <<>>)
JunkBody == Body("junk", <<>>)

Outcomes ==
    {Resp(200, EmptyBody), Resp(200, JunkBody), Resp(404, NoneV), Resp(503, NoneV),
     Exc("ReadTimeout"), Exc("ConnectTimeout"), Exc("ConnectionError"), Exc("SSLError"),
     Exc("ValueError")}

FetchAttempt ==
    /\ pc = "http"
    /\ fs.ret = NoneV
    /\ \E o \in Outcomes, o2 \in Outcomes : fs' = FetchStep(fs, o, o2)
    /\ UNCHANGED <<pc, web, all_proxies, unique_proxies, seen, k, proxy, hashseed>>
    /\ UNCHANGED aggVars
    /\ UNCHANGED extVars

InitFetch ==
    /\ pc = "http"
    /\ fs = FetchStart
    /\ proxy = NoneV
    /\ hashseed = 0
    /\ all_proxies = <<>>
    /\ unique_proxies = <<>>
    /\ seen = {}
    /\ k = 1
    /\ IdleAgg
    /\ IdleExt

NextFetch == FetchAttempt

SpecFetch == InitFetch /\ [][NextFetch]_vars

(***************************************************************************)
(* main(): deduplication loop.                                             *)
(***************************************************************************)
\* key = f"{server}:{port}:{type}:{name}"
DedupKey(p) ==
    Fmt(Get(p, "server", StrV(""))) \o ":" \o Fmt(Get(p, "port", StrV("")))
      \o ":" \o Fmt(Get(p, "type", StrV(""))) \o ":" \o Fmt(Get(p, "name", StrV("")))

\* a loop body that forgets seen.add(key)
DedupIterNoAdd(st, p) ==
    IF ~Truthy(p) THEN st
    ELSE IF DedupKey(p) \notin st.seen
         THEN [seen |-> st.seen, unique |-> Append(st.unique, p)]
         ELSE st

\* a loop body that toggles the key in seen instead of adding it
DedupIterToggle(st, p) ==
    IF ~Truthy(p) THEN st
    ELSE IF DedupKey(p) \notin st.seen
         THEN [seen |-> st.seen \cup {DedupKey(p)}, unique |-> Append(st.unique, p)]
         ELSE [seen |-> st.seen \ {DedupKey(p)}, unique |-> st.unique]

\* a loop body that does not skip empty / None entries
DedupIterNoSkip(st, p) ==
    LET key == IF p.t = "dict" THEN DedupKey(p) ELSE "None" IN
    IF key \notin st.seen
    THEN [seen |-> st.seen \cup {key}, unique |-> Append(st.unique, p)]
    ELSE st

\* one iteration of "for proxy in all_proxies"
DedupIter(st, p) ==
    IF ~Truthy(p) THEN st
    ELSE IF DedupKey(p) \notin st.seen
         THEN [seen |-> st.seen \cup {DedupKey(p)}, unique |-> Append(st.unique, p)]
         ELSE st

\* the iterations of the loop over ps[lo..hi], in order; the range is halved and the
\* first half is evaluated (its list only grows) before the second half is entered, so
\* that long lists are evaluated at a small depth
RECURSIVE DedupFrom(_, _, _, _)
DedupFrom(st, ps, lo, hi) ==
    IF lo > hi THEN st
    ELSE IF lo = hi THEN DedupIter(st, ps[lo])
    ELSE LET mid == (lo + hi) \div 2
             left == DedupFrom(st, ps, lo, mid)
         IN IF Len(left.unique) >= Len(st.unique) THEN DedupFrom(left, ps, mid + 1, hi) ELSE left

\* the whole deduplication block applied to a node list
Dedup(ps) == DedupFrom([seen |-> {}, unique |-> <<>>], ps, 1, Len(ps)).unique

DedupStep ==
    /\ pc = "dedup"
    /\ k <= Len(all_proxies)
    /\ LET st == DedupIter([seen |-> seen, unique |-> unique_proxies], all_proxies[k])
       IN /\ seen' = st.seen
          /\ unique_proxies' = st.unique
    /\ k' = k + 1
    /\ UNCHANGED <<pc, web, all_proxies, unitVars>>
    /\ UNCHANGED aggVars
    /\ UNCHANGED extVars

\* the loop is exhausted: main() goes on with the deduplicated list
DedupEnd ==
    /\ pc = "dedup"
    /\ k > Len(all_proxies)
    /\ pc' = "done"
    /\ UNCHANGED <<web, all_proxies, unique_proxies, seen, k, unitVars>>
    /\ UNCHANGED aggVars
    /\ UNCHANGED extVars

(***************************************************************************)
(* The batches: up to MaxFeatured sources of any kind, then plain ones.    *)
(***************************************************************************)
NodeOf(name, server) ==
    DictV([name |-> StrV(name), type |-> StrV("ss"), server |-> StrV(server),
           port |-> IntV("8388"), udp |-> PyTrue])

Thrice(o) == <<o, o, o>>

\* the kinds of source: label, answers to the three attempts (with the body served)
KindList ==
    <<[remark |-> StrV("A"), script |-> Thrice(Resp(200, Body("nodes", <<NodeOf("x", "h1")>>)))],
      [remark |-> NoneV,
       script |-> Thrice(Resp(200, Body("nodes", <<NodeOf("A-x", "h1"), NodeOf("y", "h2")>>)))],
      [remark |-> StrV("A"), script |-> Thrice(Resp(200, JunkBody))],
      [remark |-> StrV("B"), script |-> Thrice(Resp(200, EmptyBody))],
      [remark |-> StrV("B"), script |-> Thrice(Exc("ReadTimeout"))],
      [remark |-> NoneV, script |-> <<Resp(503, NoneV), Resp(503, NoneV), Resp(404, NoneV)>>]>>

Kinds == 1..Len(KindList)

\* the sources of a large subscription: label and number of nodes served
BulkRemarks == <<NoneV, StrV("A"), StrV("B")>>
BulkCounts == <<1, GroupCap + 10, MaxNodes - 30, MaxNodes>>
BulkKinds == 1..(Len(BulkRemarks) * Len(BulkCounts))
BulkRemark(d) == BulkRemarks[((d - 1) \div Len(BulkCounts)) + 1]
BulkCount(d) == BulkCounts[((d - 1) % Len(BulkCounts)) + 1]

\* every attempt at bulk source d is answered with its nodes n1, n2, ...
BulkScript(d) ==
    Thrice(Resp(200, Body("nodes", [j \in 1..BulkCount(d) |-> NodeOf("n" \o ToString(j), "h4")])))

\* kind 0: an unlabelled source that answers at once with one node of its own
PlainScript(j) == Thrice(Resp(200, Body("nodes", <<NodeOf("p" \o ToString(j), "h3")>>)))


\* the kinds of the sources of a list of n lines: the featured ones first
Padded(f, n) == [j \in 1..n |-> IF j <= Len(f) THEN f[j] ELSE 0]

\* a list short enough for the sequential path: the featured sources in any order
SeqBatches ==
    UNION {{Padded(f, n) : f \in [1..MinOf(n, MaxFeatured) -> Kinds]} :
              n \in 1..ParallelThreshold}

\* a list long enough for the thread pool, which has a worker for every task; the tasks
\* complete in any order, so the featured sources are listed in one order only
ParBatches ==
    UNION {{Padded(f, n) : f \in {g \in [1..MinOf(n, MaxFeatured) -> Kinds] :
                                     \A a, b \in DOMAIN g : a < b => g[a] < g[b]}} :
              n \in (ParallelThreshold + 1)..MinOf(ParallelThreshold + MaxOver, MaxWorkers)}

Batches == SeqBatches \cup ParBatches

(***************************************************************************)
(* main(): the aggregation of one source list.                             *)
(***************************************************************************)
\* "if success and content"
GotContent(r) == r.success /\ r.content # NoneV /\ r.content.text # ""

\* m[key] = value
MapSet(m, key, value) == [x \in DOMAIN m \cup {key} |-> IF x = key THEN value ELSE m[x]]

\* m.get(key, default)
MapGet(m, key, default) == IF key \in DOMAIN m THEN m[key] ELSE default

\* d.update(e)
DictUpdate(d, e) == [x \in DOMAIN d \cup DOMAIN e |-> IF x \in DOMAIN e THEN e[x] ELSE d[x]]

\* f"{remark if remark else 'unnamed'}"
RemarkText(remark) == IF Truthy(remark) THEN remark.v ELSE "unnamed"

EntryInfo(url, remark, node_count, error) ==
    [url |-> url, remark |-> remark, node_count |-> node_count, error |-> error]

AddToNodesMapReplacing(m, remark, proxies) ==
    IF \E j \in 1..Len(m) : m[j].remark = remark
    THEN [j \in 1..Len(m) |-> IF m[j].remark = remark
                              THEN [m[j] EXCEPT !.nodes = proxies] ELSE m[j]]
    ELSE Append(m, [remark |-> remark, nodes |-> proxies])

\* remark_nodes_map after the nodes of a labelled source are added; the dict keeps its
\* keys in insertion order, so it is a list of (label, nodes) entries
AddToNodesMap(m, remark, proxies) ==
    IF \E j \in 1..Len(m) : m[j].remark = remark
    THEN [j \in 1..Len(m) |-> IF m[j].remark = remark
                              THEN [m[j] EXCEPT !.nodes = @ \o proxies] ELSE m[j]]
    ELSE Append(m, [remark |-> remark, nodes |-> proxies])

\* remark_stats after the nodes of a labelled source are added
AddToStats(m, remark, proxies) == MapSet(m, remark.v, MapGet(m, remark.v, 0) + Len(proxies))

total_count == Len(url_entries)
use_parallel == total_count > ParallelThreshold

\* what the j-th source of the list answers to the three attempts
ScriptOf(j) ==
    IF web[j] = 0 THEN PlainScript(j)
    ELSE IF web[j] > 0 THEN KindList[web[j]].script
    ELSE BulkScript(-web[j])

\* one pass of the sequential loop: fetch, decode, record
SeqStep ==
    /\ pc = "fetch"
    /\ ~use_parallel
    /\ i < total_count
    /\ LET entry == url_entries[i + 1]
           url == entry.url
           remark == entry.remark
           \* the rest of the pass, once fetch_subscription has returned r and the nodes
           \* of the content are proxies
           record(r, proxies) ==
               LET result == r.ret
                   error_info == IF Truthy(result.error) THEN result.error ELSE StrV("unknown error")
                   entry_info ==
                       IF GotContent(result)
                       THEN (IF Len(proxies) > 0 THEN EntryInfo(url, remark, Len(proxies), StrV(""))
                             ELSE EntryInfo(url, remark, 0, StrV("no valid nodes")))
                       ELSE EntryInfo(url, remark, 0, error_info)
                   ok == GotContent(result) /\ Len(proxies) > 0
                   reason == entry_info.error
               IN /\ all_proxies' = IF ok THEN all_proxies \o proxies ELSE all_proxies
                  /\ success_count' = IF ok THEN success_count + 1 ELSE success_count
                  /\ remark_nodes_map' = IF ok /\ Truthy(remark)
                                         THEN AddToNodesMap(remark_nodes_map, remark, proxies)
                                         ELSE remark_nodes_map
                  /\ remark_stats' = IF ok /\ Truthy(remark)
                                     THEN AddToStats(remark_stats, remark, proxies)
                                     ELSE remark_stats
                  /\ remark_failed_stats' = IF ~ok /\ Truthy(remark)
                                            THEN MapSet(remark_failed_stats, remark.v, reason)
                                            ELSE remark_failed_stats
                  /\ failed_urls' =
                        IF ok THEN failed_urls
                        ELSE IF GotContent(result)
                        THEN Append(failed_urls, "# " \o RemarkText(remark) \o ": " \o url.v)
                        ELSE Append(failed_urls, "# " \o RemarkText(remark) \o ": " \o url.v
                                                   \o " - " \o Fmt(error_info))
                  /\ failed_entries' = IF ok THEN failed_entries ELSE Append(failed_entries, entry_info)
                  /\ url_entries' = [url_entries EXCEPT ![i + 1] = DictUpdate(@, entry_info)]
                  /\ now' = now + r.elapsed + (IF i < total_count - 1 THEN 1 ELSE 0)
           \* proxies = process_subscription_content(content, remark)
           fetched(r) ==
               record(r, IF GotContent(r.ret)
                         THEN process_subscription_content(TextOf(r.ret.content), remark)
                         ELSE <<>>)
       IN fetched(fetch_subscription(ScriptOf(i + 1)))
    /\ i' = i + 1
    /\ finished' = finished \cup {i + 1}
    /\ UNCHANGED <<pc, web, args_list, unique_proxies, seen, k, unitVars>>
    /\ UNCHANGED extVars

\* a task that decodes the content without the label of its source
FetchParallelUnlabelled(url, remark, script) ==
    LET decoded(proxies) ==
            IF Len(proxies) > 0
            THEN [success |-> TRUE, proxies |-> proxies, remark |-> remark,
                  entry_info |-> EntryInfo(url, remark, Len(proxies), StrV(""))]
            ELSE [success |-> FALSE, proxies |-> <<>>, remark |-> remark,
                  error_msg |-> StrV("no valid nodes"),
                  entry_info |-> EntryInfo(url, remark, 0, StrV("no valid nodes"))]
        fetched(result) ==
            IF GotContent(result)
            THEN decoded(process_subscription_content(TextOf(result.content), NoneV))
            ELSE [success |-> FALSE, proxies |-> <<>>, remark |-> remark,
                  error_msg |-> result.error,
                  entry_info |-> EntryInfo(url, remark, 0, result.error)]
    IN fetched(fetch_subscription(script).ret)

\* the task of the thread pool for one source: what it returns
fetch_subscription_parallel(url, remark, script) ==
    LET \* what is returned once the content has given the nodes proxies
        decoded(proxies) ==
            IF Len(proxies) > 0
            THEN [success |-> TRUE, proxies |-> proxies, remark |-> remark,
                  entry_info |-> EntryInfo(url, remark, Len(proxies), StrV(""))]
            ELSE [success |-> FALSE, proxies |-> <<>>, remark |-> remark,
                  error_msg |-> StrV("no valid nodes"),
                  entry_info |-> EntryInfo(url, remark, 0, StrV("no valid nodes"))]
        \* content, success, error_msg = fetch_subscription(url)
        fetched(result) ==
            IF GotContent(result)
            THEN decoded(process_subscription_content(TextOf(result.content), remark))
            ELSE [success |-> FALSE, proxies |-> <<>>, remark |-> remark,
                  error_msg |-> result.error,
                  entry_info |-> EntryInfo(url, remark, 0, result.error)]
    IN fetched(fetch_subscription(script).ret)

\* seconds after submission before which the task of source j cannot be done (its sleeps
\* and timed-out requests); every task starts at once, the pool having a worker for each
DoneAt(j) == fetch_subscription(ScriptOf(j)).elapsed

\* url_entries[i].update(entry_info)
UpdateEntry(entry, entry_info) == DictUpdate(entry, entry_info)

\* one pass of the loop over as_completed: the future of task t is the next to complete,
\* whichever t that is; as_completed yields it when it is done, however long that takes,
\* so future.result(timeout=60) returns the result at once and never times out
ParMerge(t) ==
    /\ pc = "fetch"
    /\ use_parallel
    /\ t \in (1..total_count) \ finished
    /\ LET \* result = future.result(timeout=60) and what the loop does with it
           merge(result) ==
               LET remark == result.remark
                   \* main's local entry_info at the update: the failure branch assigns it
                   \* result['entry_info']; the success branch does not assign it, so it is
                   \* what the latest failure of the batch left (the last of failed_entries)
                   entry_info == IF result.success THEN failed_entries[Len(failed_entries)]
                                 ELSE result.entry_info
               IN /\ all_proxies' = IF result.success THEN all_proxies \o result.proxies ELSE all_proxies
                  /\ success_count' = IF result.success THEN success_count + 1 ELSE success_count
                  /\ remark_nodes_map' = IF result.success /\ Truthy(remark) /\ Len(result.proxies) > 0
                                         THEN AddToNodesMap(remark_nodes_map, remark, result.proxies)
                                         ELSE remark_nodes_map
                  /\ remark_stats' = IF result.success /\ Truthy(remark) /\ Len(result.proxies) > 0
                                     THEN AddToStats(remark_stats, remark, result.proxies)
                                     ELSE remark_stats
                  /\ remark_failed_stats' = IF ~result.success /\ Truthy(remark)
                                            THEN MapSet(remark_failed_stats, remark.v, result.error_msg)
                                            ELSE remark_failed_stats
                  /\ failed_urls' =
                        IF result.success THEN failed_urls
                        ELSE Append(failed_urls, "# " \o RemarkText(remark) \o ": " \o entry_info.url.v
                                                   \o " - " \o Fmt(result.error_msg))
                  /\ failed_entries' = IF result.success THEN failed_entries
                                       ELSE Append(failed_entries, entry_info)
                  \* with no failure so far the local is unbound: the update raises
                  \* UnboundLocalError, which the loop's except Exception clause prints
                  /\ url_entries' = IF result.success /\ failed_entries = <<>> THEN url_entries
                                    ELSE [url_entries EXCEPT ![i + 1] = UpdateEntry(@, entry_info)]
       IN merge(fetch_subscription_parallel(args_list[t].url, args_list[t].remark,
                                            ScriptOf(t)))
    /\ now' = IF DoneAt(t) > now THEN DoneAt(t) ELSE now
    /\ i' = i + 1
    /\ finished' = finished \cup {t}
    /\ UNCHANGED <<pc, web, args_list, unique_proxies, seen, k, unitVars>>
    /\ UNCHANGED extVars

ParStep == \E t \in 1..total_count : ParMerge(t)

\* both loops are over: main() deduplicates the accumulated list
Deduplicate ==
    /\ pc = "fetch"
    /\ i = total_count
    /\ LET st == DedupFrom([seen |-> {}, unique |-> <<>>], all_proxies, 1, Len(all_proxies))
       IN /\ seen' = st.seen
          /\ unique_proxies' = st.unique
    /\ k' = Len(all_proxies) + 1
    /\ pc' = "done"
    /\ UNCHANGED <<web, all_proxies, unitVars>>
    /\ UNCHANGED aggVars
    /\ UNCHANGED extVars

(***************************************************************************)
(* build_proxy_groups and generate_clash_config_with_groups.               *)
(***************************************************************************)
\* s[:n]
Take(s, n) == SubSeq(s, 1, MinOf(Len(s), n))

DIRECT == StrV("DIRECT")
LoadBalance == StrV("load balance")
AutoSelect == StrV("auto select")
NodeSelect == StrV("node select")

\* ['load balance', 'auto select', 'DIRECT']
FixedTargets == <<LoadBalance, AutoSelect, DIRECT>>

HealthCheckUrl == StrV("http://www.gstatic.com/generate_204")

SelectGroup(name, proxies) ==
    DictV([name |-> name, type |-> StrV("select"), proxies |-> ListV(proxies)])

BalanceGroup(name, proxies) ==
    DictV([name |-> name, type |-> StrV("load-balance"), url |-> HealthCheckUrl,
           interval |-> IntV("300"), strategy |-> StrV("consistent-hashing"),
           proxies |-> ListV(proxies)])

UrlTestGroup(name, proxies) ==
    DictV([name |-> name, type |-> StrV("url-test"), url |-> HealthCheckUrl,
           interval |-> IntV("300"), tolerance |-> IntV("50"), proxies |-> ListV(proxies)])

\* [node.get('name') for node in nodes if node.get('name')]
TruthyNames(nodes) ==
    SelectSeq([j \in 1..Len(nodes) |-> Get(nodes[j], "name", NoneV)], Truthy)

\* label groups that take every node name of the label
RECURSIVE LabelGroupsUncapped(_, _)
LabelGroupsUncapped(m, j) ==
    IF j > Len(m) THEN <<>>
    ELSE LET node_names == TruthyNames(m[j].nodes)
         IN (IF Truthy(m[j].remark) /\ Len(m[j].nodes) > 0 /\ Len(node_names) > 0
             THEN <<UrlTestGroup(m[j].remark, node_names)>>
             ELSE <<>>) \o LabelGroupsUncapped(m, j + 1)

\* the groups appended for the entries of remark_nodes_map from the j-th on
RECURSIVE LabelGroups(_, _)
LabelGroups(m, j) ==
    IF j > Len(m) THEN <<>>
    ELSE LET node_names == TruthyNames(m[j].nodes)
         IN (IF Truthy(m[j].remark) /\ Len(m[j].nodes) > 0 /\ Len(node_names) > 0
             THEN <<UrlTestGroup(m[j].remark, Take(node_names, GroupCap))>>
             ELSE <<>>) \o LabelGroups(m, j + 1)

\* base groups that list only the first GroupCap node names
BuildGroupsBaseCapped(all_nodes, m) ==
    LET head == Take(all_nodes, GroupCap)
        all_node_names == [j \in 1..Len(head) |->
                              Get(head[j], "name", StrV("node" \o ToString(j)))]
    IN <<SelectGroup(NodeSelect, FixedTargets),
         BalanceGroup(LoadBalance, all_node_names),
         UrlTestGroup(AutoSelect, all_node_names)>> \o LabelGroups(m, 1)

build_proxy_groups(all_nodes, m) ==
    LET head == Take(all_nodes, MaxNodes)
        all_node_names == [j \in 1..Len(head) |->
                              Get(head[j], "name", StrV("node" \o ToString(j)))]
    IN <<SelectGroup(NodeSelect, FixedTargets),
         BalanceGroup(LoadBalance, all_node_names),
         UrlTestGroup(AutoSelect, all_node_names)>> \o LabelGroups(m, 1)

\* the test node written when there is no node at all
TestNode ==
    DictV([name |-> StrV("test node"), type |-> StrV("ss"), server |-> StrV("example.com"),
           port |-> IntV("443"), cipher |-> StrV("aes-256-gcm"),
           password |-> StrV("password"), udp |-> PyTrue])

\* the elements of list s that are members of list t
Among(s, t) == SelectSeq(s, LAMBDA x : \E j \in 1..Len(t) : t[j] = x)

\* a filter that leaves a list it has emptied empty
FilterGroupNoDefault(group, valid_node_names) ==
    IF "proxies" \in DOMAIN group.v /\ group.v["proxies"].t = "list"
    THEN DictV([group.v EXCEPT !["proxies"] = ListV(Among(@.v, valid_node_names \o FixedTargets))])
    ELSE group

\* one pass of the loop over proxy_groups: drop the names that are not written,
\* and put DIRECT into a list left empty
FilterGroup(group, valid_node_names) ==
    IF "proxies" \in DOMAIN group.v /\ group.v["proxies"].t = "list"
    THEN LET kept == Among(group.v["proxies"].v, valid_node_names \o FixedTargets)
         IN DictV([group.v EXCEPT !["proxies"] =
                                      ListV(IF Len(kept) = 0 THEN <<DIRECT>> ELSE kept)])
    ELSE group

\* the Document without the test-node substitution
GenerateNoTestNode(all_nodes, proxy_groups) ==
    LET head == Take(all_nodes, MaxNodes)
        dicts == SelectSeq(head, LAMBDA node : node.t = "dict")
        validated_nodes == [j \in 1..Len(dicts) |-> ensure_proxy_required_fields(dicts[j])]
        valid_node_names == [j \in 1..Len(validated_nodes) |->
                                Get(validated_nodes[j], "name", StrV(""))]
        groups == [j \in 1..Len(proxy_groups) |-> FilterGroup(proxy_groups[j], valid_node_names)]
    IN clean_config(DictV(("mixed-port" :> IntV("7890")) @@ ("allow-lan" :> PyFalse)
                          @@ ("mode" :> StrV("rule")) @@ ("proxies" :> ListV(validated_nodes))
                          @@ ("proxy-groups" :> ListV(groups))))

\* the Document generate_clash_config_with_groups dumps to the output file; of the fixed
\* settings the listen port, the LAN switch and the mode are kept, the DNS block and
\* the rule list are the same in every Document
generate_clash_config_with_groups(all_nodes, proxy_groups) ==
    LET nodes0 == IF Len(all_nodes) = 0 THEN <<TestNode>> ELSE all_nodes
        head == Take(nodes0, MaxNodes)
        dicts == SelectSeq(head, LAMBDA node : node.t = "dict")
        validated_nodes == [j \in 1..Len(dicts) |-> ensure_proxy_required_fields(dicts[j])]
        valid_node_names == [j \in 1..Len(validated_nodes) |->
                                Get(validated_nodes[j], "name", StrV(""))]
        groups == [j \in 1..Len(proxy_groups) |-> FilterGroup(proxy_groups[j], valid_node_names)]
    IN clean_config(DictV(("mixed-port" :> IntV("7890")) @@ ("allow-lan" :> PyFalse)
                          @@ ("mode" :> StrV("rule")) @@ ("proxies" :> ListV(validated_nodes))
                          @@ ("proxy-groups" :> ListV(groups))))

\* main() after the deduplication: build the groups and write the Document; without any
\* node the groups are built anew from nothing
Generate ==
    /\ pc = "done"
    /\ document' = IF Len(unique_proxies) > 0
                   THEN generate_clash_config_with_groups(
                            unique_proxies, build_proxy_groups(unique_proxies, remark_nodes_map))
                   ELSE generate_clash_config_with_groups(<<>>, build_proxy_groups(<<>>, <<>>))
    /\ pc' = "written"
    /\ UNCHANGED <<web, all_proxies, unique_proxies, seen, k, unitVars, input, output>>
    /\ UNCHANGED aggVars

\* the label of the j-th line of a batch
RemarkOf(b, j) ==
    IF b[j] = 0 THEN NoneV
    ELSE IF b[j] > 0 THEN KindList[b[j]].remark
    ELSE BulkRemark(-b[j])

\* the URL of the j-th line of the source list
SourceUrl(j) == StrV("http://u" \o ToString(j))

\* main() before the first source of batch b is fetched
Start(b) ==
    /\ pc = "fetch"
    /\ web = b
    /\ url_entries = [j \in 1..Len(b) |-> [url |-> SourceUrl(j), remark |-> RemarkOf(b, j)]]
    /\ args_list = IF Len(b) > ParallelThreshold
                   THEN [j \in 1..Len(b) |-> [url |-> SourceUrl(j), remark |-> RemarkOf(b, j)]]
                   ELSE <<>>

\* the accumulators of main() as initialised before the loop
Fresh ==
    /\ i = 0
    /\ finished = {}
    /\ now = 0
    /\ all_proxies = <<>>
    /\ failed_urls = <<>>
    /\ failed_entries = <<>>
    /\ success_count = 0
    /\ remark_nodes_map = <<>>
    /\ remark_stats = <<>>
    /\ remark_failed_stats = <<>>
    /\ unique_proxies = <<>>
    /\ seen = {}
    /\ k = 1
    /\ fs = NoneV
    /\ proxy = NoneV
    /\ hashseed = 0
    /\ IdleExt

Init == (\E b \in Batches : Start(b)) /\ Fresh

Next ==
    \/ SeqStep
    \/ ParStep
    \/ Deduplicate
    \/ Generate

Spec == Init /\ [][Next]_vars

(***************************************************************************)
(* The run over a list none of whose sources yields a node.                *)
(***************************************************************************)
\* the kinds of source that yield no node: junk, an empty body, time-outs, HTTP errors
FailKinds == {d \in Kinds : LET r == fetch_subscription(KindList[d].script).ret
                            IN ~GotContent(r) \/ r.content.nodes = <<>>}

\* the kind of a source that is down: two HTTP 503 answers, then HTTP 404
DownKind == Len(KindList)

\* short lists of failing sources of any kind, and lists of either length whose sources
\* are all down
DownBatches ==
    UNION {[1..n -> FailKinds] : n \in 1..MaxFeatured} \cup
    {[j \in 1..n |-> DownKind] : n \in 1..MinOf(ParallelThreshold + MaxOver, MaxWorkers)}

InitDown == (\E b \in DownBatches : Start(b)) /\ Fresh

SpecDown == InitDown /\ [][Next]_vars

(***************************************************************************)
(* The run over a short list of large subscriptions: more nodes than the   *)
(* Document takes, more nodes of a label than a group takes.               *)
(***************************************************************************)
DocBatches == UNION {[1..n -> {-d : d \in BulkKinds}] : n \in 1..MaxDocSources}

InitDoc == (\E b \in DocBatches : Start(b)) /\ Fresh

NextDoc == SeqStep \/ Deduplicate \/ Generate

SpecDoc == InitDoc /\ [][NextDoc]_vars

(***************************************************************************)
(* Deduplication on its own: every node list up to MaxProxies entries.     *)
(***************************************************************************)
DedupServers == {StrV("h"), StrV("h:1")}
DedupPorts == {IntV("1"), StrV("1"), StrV("1:1")}
DedupNames == {StrV("n"), StrV("m")}
DedupNodes ==
    {DictV([name |-> n, type |-> StrV("ss"), server |-> s, port |-> p, udp |-> PyTrue]) :
        n \in DedupNames, s \in DedupServers, p \in DedupPorts}
DedupInputs == DedupNodes \cup {NoneV, DictV(<<>>)}

InitDedup ==
    /\ pc = "dedup"
    /\ all_proxies \in SeqsUpTo(DedupInputs, MaxProxies)
    /\ unique_proxies = <<>>
    /\ seen = {}
    /\ k = 1
    /\ fs = NoneV
    /\ proxy = NoneV
    /\ hashseed = 0
    /\ IdleAgg
    /\ IdleExt

NextDedup == DedupStep \/ DedupEnd

SpecDedup == InitDedup /\ [][NextDedup]_vars

(***************************************************************************)
(* Properties of the deduplication loop.                                   *)
(***************************************************************************)
\* the entries of ps at the positions idx, in list order
RECURSIVE PickFrom(_, _, _)
PickFrom(ps, idx, j) ==
    IF j > Len(ps) THEN <<>>
    ELSE (IF j \in idx THEN <<ps[j]>> ELSE <<>>) \o PickFrom(ps, idx, j + 1)

Pick(ps, idx) == PickFrom(ps, idx, 1)

\* positions up to n holding a non-empty node whose identity key no earlier non-empty node carries
FirstOfKey(ps, n) ==
    {j \in 1..n : /\ Truthy(ps[j])
                  /\ \A j2 \in 1..(j - 1) : Truthy(ps[j2]) => DedupKey(ps[j2]) # DedupKey(ps[j])}

IdentityFields == {"server", "port", "type", "name"}
SameFields(a, b) == \A f \in IdentityFields : Get(a, f, NoneV) = Get(b, f, NoneV)

\* positions holding a non-empty node that no earlier node equals in server, port, type and name
FirstOfFields(ps) ==
    {j \in 1..Len(ps) : /\ Truthy(ps[j])
                        /\ \A j2 \in 1..(j - 1) : Truthy(ps[j2]) => ~SameFields(ps[j2], ps[j])}

\* C1: the deduplicated list is, at every point of the loop, the subsequence of the
\* scanned part of the accumulated list made of the first node of every identity key,
\* in list order; empty and None entries are skipped.
C1_FirstOccurrenceWins ==
    unique_proxies = Pick(all_proxies, FirstOfKey(all_proxies, k - 1))

C1_Witness ==
    /\ pc = "done"
    /\ Len(unique_proxies) = 1
    /\ \E j \in 1..Len(all_proxies) : ~Truthy(all_proxies[j])
    /\ \E j \in 1..Len(all_proxies) : Truthy(all_proxies[j]) /\ j \notin FirstOfKey(all_proxies, Len(all_proxies))

\* C2: two nodes are treated as duplicates exactly when server, port, type and name are
\* all equal: the deduplicated list is the list of the first node of every distinct
\* (server, port, type, name) tuple.
C2_DuplicateIffFieldsEqual ==
    pc = "done" => unique_proxies = Pick(all_proxies, FirstOfFields(all_proxies))

\* C3: deduplicating the deduplicated list returns it unchanged.
C3_Idempotent ==
    pc = "done" => Dedup(unique_proxies) = unique_proxies

C3_Witness ==
    /\ pc = "done"
    /\ Len(unique_proxies) >= 2
    /\ Len(unique_proxies) < Len(all_proxies)
    /\ \A j \in 1..Len(all_proxies) : Truthy(all_proxies[j])

MandatoryKeys == {"name", "type", "server", "port", "udp"}

\* None, the empty string, the empty list and the empty dict
IsEmptyValue(x) ==
    \/ x.t = "none"
    \/ x.t = "str" /\ x.v = ""
    \/ x.t \in {"list", "dict"} /\ ~Truthy(x)

\* C5: a node returned by a decoder or extractor has name, type, server, port and udp,
\* and none of the five is None, an empty string or an empty collection.
C5_MandatoryFieldsSet ==
    pc = "node" =>
        \A key \in MandatoryKeys : key \in DOMAIN proxy.v /\ ~IsEmptyValue(proxy.v[key])

C5_Witness ==
    /\ pc = "node"
    /\ proxy.v["server"] = StrV("unknown-server")
    /\ proxy.v["port"] = IntV("443")
    /\ proxy.v["udp"] = PyFalse
    /\ proxy.v["name"] = StrV("node-48")

\* the inference rules in their order: the keys a rule asks for and the type it gives
TypeRules ==
    << <<{"cipher", "password"}, "ss">>, <<{"uuid", "alterId"}, "vmess">>, <<{"uuid"}, "vless">>,
       <<{"password", "sni"}, "trojan">>, <<{"password", "alpn"}, "hysteria2">>, <<{}, "http">> >>

\* the type of the first rule all of whose keys are among the given ones
FirstMatch(keys) ==
    TypeRules[CHOOSE j \in 1..Len(TypeRules) :
                 /\ TypeRules[j][1] \subseteq keys
                 /\ \A j2 \in 1..(j - 1) : ~(TypeRules[j2][1] \subseteq keys)][2]

\* C19: the field completer gives a node without a type the type of the first matching
\* rule (cipher and password: ss; uuid and alterId: vmess; uuid: vless; password and
\* sni: trojan; password and alpn: hysteria2; otherwise http) and leaves a type that is
\* present as it is.
C19_TypeInference ==
    [][(pc = "cleaned" /\ pc' = "node" /\ proxy.t = "dict") =>
          proxy'.v["type"] = IF "type" \in DOMAIN proxy.v THEN proxy.v["type"]
                             ELSE StrV(FirstMatch(DOMAIN proxy.v))]_vars

\* a node with password, sni and alpn and no type came out as trojan
C19_Witness ==
    /\ pc = "node"
    /\ {"password", "sni", "alpn"} \subseteq DOMAIN proxy.v
    /\ "uuid" \notin DOMAIN proxy.v
    /\ proxy.v["type"] = StrV("trojan")

(***************************************************************************)
(* Properties of fetch_subscription.                                       *)
(***************************************************************************)
\* every request so far was answered with HTTP 503
All503 == fs.log # <<>> /\ \A j \in 1..Len(fs.log) : fs.log[j] = Resp(503, NoneV)

\* C6: a source that answers every attempt with HTTP 503 is given up after exactly 3
\* requests with an HTTP-error reason; nothing is slept before the first request,
\* 2 s before the second and 4 s before the third.
C6_Retry503 ==
    (pc = "http" /\ All503) =>
        /\ fs.ret = NoneV <=> fs.requests < 3
        /\ fs.sleeps = SubSeq(<<2, 4>>, 1, fs.requests - 1)
        /\ fs.ret # NoneV => fs.ret = Failure("HTTP error: 503")

C6_Witness ==
    /\ pc = "http"
    /\ All503
    /\ fs.requests = 3
    /\ fs.sleeps = <<2, 4>>
    /\ fs.ret = Failure("HTTP error: 503")

\* C7: whatever the attempts meet, at most 3 requests are issued for the URL, and with
\* the third the call has returned: success, or failure with a non-empty reason.
C7_AtMostThreeRequests ==
    pc = "http" =>
        /\ fs.requests <= 3
        /\ fs.requests = 3 => fs.ret # NoneV
        /\ fs.ret # NoneV => (fs.ret.success \/ (fs.ret.error.t = "str" /\ fs.ret.error.v # ""))

C7_Witness ==
    /\ pc = "http"
    /\ fs.requests = 3
    /\ fs.log = <<Exc("SSLError"), Exc("ReadTimeout"), Exc("ValueError")>>
    /\ fs.ret = Failure("error")

(***************************************************************************)
(* Properties of the aggregation.                                          *)
(***************************************************************************)
\* the source whose URL an entry carries
SourceOf(entry) == CHOOSE j \in 1..total_count : SourceUrl(j) = entry.url

\* the fetch of source j succeeds and no node is decoded from what it returns
FetchedNoNodes(j, remark) ==
    LET r == fetch_subscription(ScriptOf(j)).ret
    IN /\ r.success
       /\ \/ r.content.text = ""
          \/ Len(process_subscription_content(TextOf(r.content), remark)) = 0

\* C8: in both paths, the step that processes a source whose fetch succeeds but yields
\* zero nodes leaves the success count and the node list alone and records the source
\* as failed with the reason "no valid nodes", in its Fetch Outcome and, for a
\* labelled source, in the per-label failure reasons.
C8_NoValidNodesReason ==
    [][\A j \in finished' \ finished :
          LET e == url_entries'[i']
          IN (pc = "fetch" /\ FetchedNoNodes(j, e.remark)) =>
                /\ success_count' = success_count
                /\ all_proxies' = all_proxies
                /\ e.url = SourceUrl(j)
                /\ e.node_count = 0
                /\ e.error = StrV("no valid nodes")
                /\ failed_entries' = Append(failed_entries, EntryInfo(e.url, e.remark, 0, StrV("no valid nodes")))
                /\ Truthy(e.remark) => remark_failed_stats'[e.remark.v] = StrV("no valid nodes")]_vars

\* C9: in the concurrent path every entry the loop has passed carries a Fetch Outcome, the
\* node count and error of the task that fetched the URL the entry carries, and after the
\* batch every source URL is carried by exactly one entry.
C9_OutcomeOfOwnUrl ==
    (pc \in {"fetch", "done"} /\ use_parallel) =>
        /\ \A s \in 1..i :
              LET e == url_entries[s]
                  info == fetch_subscription_parallel(e.url, e.remark, ScriptOf(SourceOf(e))).entry_info
              IN /\ {"node_count", "error"} \subseteq DOMAIN e
                 /\ e.node_count = info.node_count
                 /\ e.error = info.error
        /\ i = total_count =>
              \A j \in 1..total_count :
                  Cardinality({s \in 1..total_count : url_entries[s].url = SourceUrl(j)}) = 1

\* C10: in the concurrent path a task that is not done within 60 s of its submission is
\* recorded with the reason "timed out", and the engine has not waited longer than the
\* timeout for any result it has gone past.
C10_StragglerTimedOut ==
    (pc \in {"fetch", "done"} /\ use_parallel) =>
        /\ \A t \in finished :
              DoneAt(t) > TaskTimeout =>
                  \E s \in 1..Len(failed_entries) :
                      failed_entries[s] = EntryInfo(args_list[t].url, args_list[t].remark, 0,
                                                    StrV("timed out"))
        /\ now <= TaskTimeout * i

(***************************************************************************)
(* Properties of the Document.                                             *)
(***************************************************************************)
DocProxies == Get(document, "proxies", ListV(<<>>)).v
DocGroups == Get(document, "proxy-groups", ListV(<<>>)).v
DocNames == {Get(DocProxies[j], "name", NoneV) : j \in 1..Len(DocProxies)}
Members(group) == Get(group, "proxies", ListV(<<>>)).v
MemberSet(group) == {Members(group)[j] : j \in 1..Len(Members(group))}
FixedTargetSet == {LoadBalance, AutoSelect, DIRECT}

\* the groups handed to generate_clash_config_with_groups
BuiltGroups ==
    IF Len(unique_proxies) > 0 THEN build_proxy_groups(unique_proxies, remark_nodes_map)
    ELSE build_proxy_groups(<<>>, <<>>)

\* C11: in the Document written there are at most 200 nodes, every group's proxies list
\* is non-empty, each member is the name of a node of the Document or one of the fixed
\* targets, and a group none of whose built members is written or fixed holds DIRECT only.
C11_GroupMembersValid ==
    pc = "written" =>
        /\ Len(DocProxies) <= MaxNodes
        /\ Len(DocGroups) = Len(BuiltGroups)
        /\ \A j \in 1..Len(DocGroups) :
              /\ Members(DocGroups[j]) # <<>>
              /\ MemberSet(DocGroups[j]) \subseteq DocNames \cup FixedTargetSet
              /\ MemberSet(BuiltGroups[j]) \cap (DocNames \cup FixedTargetSet) = {}
                    => Members(DocGroups[j]) = <<DIRECT>>

\* a label group lost some, but not all, of its members to the truncation
C11_Witness ==
    /\ pc = "written"
    /\ Len(unique_proxies) > MaxNodes
    /\ \E j \in 4..Len(DocGroups) :
          /\ Len(Members(DocGroups[j])) < Len(Members(BuiltGroups[j]))
          /\ Len(Members(DocGroups[j])) > 1

\* the labels the batch has seen, and the names of the groups after the base groups
LabelsSeen == {url_entries[j].remark : j \in 1..Len(url_entries)} \cup
              {Get(DocGroups[j], "name", NoneV) : j \in 4..Len(DocGroups)}

\* the latency-test groups named after label L
GroupsOf(L) == {j \in 4..Len(DocGroups) : Get(DocGroups[j], "name", NoneV) = L}

\* a node of label L is among the nodes of the Document
Survives(L) ==
    \E e \in 1..Len(remark_nodes_map) :
        /\ remark_nodes_map[e].remark = L
        /\ \E j \in 1..Len(remark_nodes_map[e].nodes), d \in 1..Len(DocProxies) :
              remark_nodes_map[e].nodes[j] = DocProxies[d]

\* C12 as stated: a latency-test group named after a label is in the Document if and
\* only if the label is non-empty and a node of that label survives deduplication and
\* the truncation to 200 nodes; such a group has at most 50 members.
C12_GroupIffSurvivor ==
    pc = "written" =>
        \A L \in LabelsSeen :
            /\ GroupsOf(L) # {} <=> (Truthy(L) /\ Survives(L))
            /\ \A j \in GroupsOf(L) : Len(Members(DocGroups[j])) <= GroupCap

\* a source labelled L has yielded a node
Yielded(L) == \E j \in 1..Len(url_entries) :
                 /\ url_entries[j].remark = L
                 /\ "node_count" \in DOMAIN url_entries[j]
                 /\ url_entries[j].node_count > 0

\* C12 amended: a latency-test group named after a label is in the Document if and only
\* if the label is non-empty and a source carrying it has yielded a node, whether or
\* not a node of the label survives deduplication and truncation; there is one such
\* group per label, it has at most 50 members, and it holds DIRECT alone when none of
\* its first 50 names is written.
C12_GroupIffYielded ==
    pc = "written" =>
        \A L \in LabelsSeen :
            /\ GroupsOf(L) # {} <=> (Truthy(L) /\ Yielded(L))
            /\ Cardinality(GroupsOf(L)) <= 1
            /\ \A j \in GroupsOf(L) :
                  /\ Len(Members(DocGroups[j])) <= GroupCap
                  /\ (MemberSet(DocGroups[j]) \cap DocNames = {}) => Members(DocGroups[j]) = <<DIRECT>>

\* a label with more nodes than a group takes, and a label whose nodes are all cut off
C12_Witness ==
    /\ pc = "written"
    /\ \E j \in 4..Len(DocGroups) : Members(DocGroups[j]) = <<DIRECT>>
    /\ \E e \in 1..Len(remark_nodes_map) : Len(remark_nodes_map[e].nodes) > GroupCap

\* the names of the first 200 deduplicated nodes
SurvivingNames ==
    [j \in 1..MinOf(Len(unique_proxies), MaxNodes) |-> Get(unique_proxies[j], "name", NoneV)]

\* C13 as stated: each of the three base groups references the names of all of the
\* first 200 deduplicated nodes.
C13_BaseGroupsReferenceAll ==
    pc = "written" =>
        \A g \in 1..3 : \A j \in 1..Len(SurvivingNames) :
            SurvivingNames[j] \in MemberSet(DocGroups[g])

\* C13 amended: the load-balance group and the base latency-test group list exactly the
\* names of the first 200 deduplicated nodes, in order (DIRECT alone when there is no
\* node); the selector group lists the fixed targets only.
C13_TwoGroupsReferenceAll ==
    pc = "written" =>
        /\ Len(DocGroups) >= 3
        /\ Get(DocGroups[1], "name", NoneV) = NodeSelect
        /\ Get(DocGroups[2], "name", NoneV) = LoadBalance
        /\ Get(DocGroups[3], "name", NoneV) = AutoSelect
        /\ Members(DocGroups[1]) = FixedTargets
        /\ \A g \in 2..3 :
              Members(DocGroups[g]) = IF Len(unique_proxies) = 0 THEN <<DIRECT>> ELSE SurvivingNames

C13_Witness ==
    /\ pc = "written"
    /\ Len(unique_proxies) > MaxNodes
    /\ Len(Members(DocGroups[2])) = MaxNodes
    /\ Len(DocGroups) > 3

\* C14: when no source of the batch has yielded a node, the Document is written all the
\* same: its only node is the test node, its groups are the three base groups, and each
\* of them references the test node or DIRECT.
C14_PlaceholderDocument ==
    (pc = "written" /\ success_count = 0) =>
          /\ all_proxies = <<>>
          /\ DocProxies = <<TestNode>>
          /\ Len(DocGroups) = 3
          /\ {Get(DocGroups[g], "name", NoneV) : g \in 1..3} = {NodeSelect, LoadBalance, AutoSelect}
          /\ \A g \in 1..3 :
                MemberSet(DocGroups[g]) \cap {DIRECT, Get(TestNode, "name", NoneV)} # {}

\* every task of the thread pool has failed
C14_Witness ==
    /\ pc = "written"
    /\ use_parallel
    /\ success_count = 0
    /\ Len(failed_entries) = total_count

\* the word each decoder writes into a default name
SchemeWord == [ss |-> "SS", trojan |-> "Trojan", vless |-> "VLESS", hysteria2 |-> "Hysteria2"]

\* the fragment the URL was written with, percent escapes resolved ('' when it has none)
FragmentText == IF input.fragment = <<>> THEN "" ELSE unquote(Tail(input.fragment))

\* the default name of the decoded node: <SCHEME>-host:port
DefaultName ==
    SchemeWord[input.url.scheme] \o "-" \o input.host \o ":" \o output.v["port"].v

\* C20: the name of a node decoded from an ss, trojan, vless or hysteria2 URI is
\* label-fragment when label and fragment are both present, label-<SCHEME>-host:port
\* when only the label is, the fragment when only the fragment is, and
\* <SCHEME>-host:port when neither is.
C20_NamePrecedence ==
    (pc = "decoded" /\ input.url.t = "url" /\ input.url.scheme \in Schemes /\ output # NoneV) =>
        output.v["name"] =
            StrV(CASE input.remark \notin {NoneV, StrV("")} /\ FragmentText # "" ->
                          input.remark.v \o "-" \o FragmentText
                   [] input.remark \notin {NoneV, StrV("")} /\ FragmentText = "" ->
                          input.remark.v \o "-" \o DefaultName
                   [] input.remark \in {NoneV, StrV("")} /\ FragmentText # "" -> FragmentText
                   [] OTHER -> DefaultName)

\* a hysteria2 URL with a label and an empty fragment is decoded to a node named after
\* label, scheme, host and port
C20_Witness ==
    /\ pc = "decoded"
    /\ input.url.t = "url"
    /\ input.url.scheme = "hysteria2"
    /\ input.fragment = <<"#">>
    /\ input.remark = StrV("L")
    /\ output # NoneV
    /\ output.v["name"] = StrV("L-Hysteria2-h.example:443")

(***************************************************************************)
(* Properties of process_subscription_content and the extractors.         *)
(***************************************************************************)
\* the text a written mapping gives for a key
PairValue(pairs, key) == pairs[CHOOSE x \in 1..Len(pairs) : pairs[x][1] = key][2]

\* the keys of a written mapping
PairKeys(pairs) == {pairs[x][1] : x \in 1..Len(pairs)}

\* every mapping of the list has a name
AllNamed(items) == \A j \in 1..Len(items) : "name" \in PairKeys(items[j])

\* the nodes are as many as the mappings and the j-th is named label-<name of the j-th>
LabelledInOrder(nodes, items, remark) ==
    /\ Len(nodes) = Len(items)
    /\ \A j \in 1..Len(items) :
          nodes[j].v["name"] = StrV(remark.v \o "-" \o PairValue(items[j], "name"))

\* C15 as stated: a document with a proxies list of n named mappings (and settings or
\* other keys around it), processed with a non-empty label L, yields n nodes in list
\* order, the j-th named L-<name of the j-th mapping>.
C15_DocumentNodesLabelled ==
    (/\ pc = "processed"
     /\ input.kind = "document"
     /\ input.intact
     /\ Truthy(input.remark)
     /\ AllNamed(input.items))
    => LabelledInOrder(output, input.items, input.remark)

\* C15, amended: a text that is_clash_yaml_content takes for a structured document and
\* that loads as a mapping whose proxies list holds n >= 1 named mappings, processed
\* with a non-empty label L, yields n nodes in list order, the j-th named
\* L-<name of the j-th mapping>.
C15_ClassifiedDocumentNodesLabelled ==
    (/\ pc = "processed"
     /\ input.kind = "document"
     /\ input.intact
     /\ is_clash_yaml_content(input.content)
     /\ Len(input.items) >= 1
     /\ Truthy(input.remark)
     /\ AllNamed(input.items))
    => LabelledInOrder(output, input.items, input.remark)

C15_Witness ==
    /\ pc = "processed"
    /\ input.kind = "document"
    /\ input.intact
    /\ is_clash_yaml_content(input.content)
    /\ input.remark = StrV("L")
    /\ Len(input.items) = 2
    /\ AllNamed(input.items)
    /\ PairValue(input.items[1], "name") = "b"
    /\ "server" \notin PairKeys(input.items[2])
    /\ Len(output) = 2
    /\ output[1].v["name"] = StrV("L-b")
    /\ output[2].v["name"] = StrV("L-c")

\* C16: two runs of process_subscription_content over the same text and label, in
\* whatever process, return the same node sequence, field for field, synthesized names
\* included: the run after a restart returns what the run before it returned.
C16_SameNodesEveryRun ==
    [][(pc = "again" /\ pc' = "processed") => output' = output]_vars

\* the mappings written in a text: those of its list and those of its compact lines
MappingsOf(text) ==
    {text.items[j] : j \in 1..Len(text.items)}
    \cup {text.content.lines[j].pairs :
             j \in {x \in 1..Len(text.content.lines) : text.content.lines[x].form = "flow"}}

\* the node is what an extractor makes of a mapping that has name, server and type
FromComplete(node, item, remark) ==
    /\ {"name", "server", "type"} \subseteq PairKeys(item)
    /\ node.v["name"] = StrV((IF Truthy(remark) THEN remark.v \o "-" ELSE "")
                             \o PairValue(item, "name"))
    /\ node.v["server"] = StrV(PairValue(item, "server"))
    /\ node.v["type"] = StrV(PairValue(item, "type"))

\* C17: whatever path extracts the mappings of a text (full document, bare list,
\* multi-line fallback, compact line), a mapping that lacks name, server or type is
\* discarded: every node of the output comes from a mapping of the text that has the
\* three, and carries its name (after the label), server and type.
C17_IncompleteDiscarded ==
    (/\ pc = "processed"
     /\ \A j \in 1..Len(input.content.lines) : input.content.lines[j].form # "url")
    => \A j \in 1..Len(output) :
          \E item \in MappingsOf(input) : FromComplete(output[j], item, input.remark)

\* the text is processed line by line: it is not taken for a structured document, or
\* both extractors get nothing from it
ProcessedByLine(content, remark) ==
    \/ ~is_clash_yaml_content(content)
    \/ /\ parse_clash_yaml_content(content, remark) = <<>>
       /\ extract_yaml_proxies_from_content(content, remark) = <<>>

\* the lines of the text that decode to a node
DecodedLines(content, remark) ==
    {j \in 1..Len(content.lines) : LineNode(content.lines[j], remark).t = "dict"}

\* C18: parse_proxy_url returns a node or None for every line, whatever is raised inside
\* a decoder, and in line-by-line processing the output is exactly the nodes of the lines
\* that decode, in line order, the other lines being skipped.
C18_DecodersContainFailures ==
    (pc = "processed" /\ ProcessedByLine(input.content, input.remark))
    => LET lines == input.content.lines
           decoded == DecodedLines(input.content, input.remark)
       IN /\ \A j \in 1..Len(lines) :
                lines[j].form = "url" =>
                    parse_proxy_url(lines[j].url, input.remark).t \in {"dict", "none"}
          /\ Len(output) = Cardinality(decoded)
          /\ \A x \in 1..Len(output) :
                /\ output[x].t = "dict"
                /\ output[x] = LineNode(lines[CHOOSE j \in decoded :
                                                 Cardinality({j2 \in decoded : j2 <= j}) = x],
                                        input.remark)

C18_Witness ==
    /\ pc = "processed"
    /\ input.kind = "lines"
    /\ ProcessedByLine(input.content, input.remark)
    /\ Len(input.content.lines) = 3
    /\ input.content.lines[1] = UrlLine(Url("trojan", <<"pw", "@", "h.example", ":", "x">>))
    /\ Cut(input.content.lines[1].url, 9).port.t = "raise"
    /\ parse_proxy_url(input.content.lines[1].url, input.remark) = NoneV
    /\ input.content.lines[2] = JunkLine
    /\ input.content.lines[3].form = "url"
    /\ Len(output) = 1
    /\ output[1].v["type"] = StrV("ss")

(***************************************************************************)
(* Properties of the decoded nodes.                                        *)
(***************************************************************************)
\* C21: a node decoded from a URI of any scheme has udp true, and neither tls nor
\* skip-cert-verify is present in it with the value false: a TLS field the URI does not
\* enable is absent from the node.
C21_TlsFieldsAbsentNotFalse ==
    (pc = "decoded" /\ output # NoneV) =>
        /\ output.v["udp"] = PyTrue
        /\ \A key \in {"tls", "skip-cert-verify"} :
              key \in DOMAIN output.v => output.v[key] # PyFalse

(***************************************************************************)
(* The source list: parse_source_file and extract_remark_from_comment.     *)
(* A line is the sequence of its characters, a word of letters written as  *)
(* one element ("http"); a label is StrV of such a sequence.               *)
(* The break pattern is modelled on its ASCII members.  input holds the    *)
(* file, output the locals of parse_source_file: results, current_remark   *)
(* and the number of lines read.                                           *)
(***************************************************************************)
RemarkLimit == 20

Whitespace == {" ", "\t", "\n"}

BreakChars == Whitespace \cup {",", ".", ";", ":", "!", "?"}

RECURSIVE LStrip(_, _)
LStrip(s, chars) ==
    IF s # <<>> /\ Head(s) \in chars THEN LStrip(Tail(s), chars) ELSE s

RECURSIVE RStrip(_, _)
RStrip(s, chars) ==
    IF s # <<>> /\ s[Len(s)] \in chars THEN RStrip(SubSeq(s, 1, Len(s) - 1), chars) ELSE s

Strip(s, chars) == RStrip(LStrip(s, chars), chars)

BeforeBreak(s) ==
    IF \E j \in 1..Len(s) : s[j] \in BreakChars
    THEN SubSeq(s, 1, (CHOOSE j \in 1..Len(s) :
                          /\ s[j] \in BreakChars
                          /\ \A h \in 1..(j - 1) : s[h] \notin BreakChars) - 1)
    ELSE s

extract_remark_from_comment(comment_line) ==
    LET uncommented(line) ==
            IF line # <<>> /\ Head(line) = "#" THEN Strip(Tail(line), Whitespace) ELSE line
        truncated(remark) ==
            IF Len(remark) > RemarkLimit THEN SubSeq(remark, 1, RemarkLimit) ELSE remark
        cleaned(remark) == truncated(Strip(remark, {" ", "-", "_"}))
        returned(remark) == IF remark # <<>> THEN StrV(remark) ELSE NoneV
        extracted(line) ==
            IF line = <<>> THEN NoneV
            ELSE returned(cleaned(Strip(BeforeBreak(line), Whitespace)))
    IN IF comment_line = <<>> THEN NoneV
       ELSE extracted(uncommented(Strip(comment_line, Whitespace)))

\* re.match(r'^https?://', line)
IsUrlLine(line) ==
    /\ Len(line) >= 4
    /\ line[1] \in {"http", "https"}
    /\ <<line[2], line[3], line[4]>> = <<":", "/", "/">>

ScanLineKeeping(state, raw) ==
    LET scanned(line) ==
            IF IsUrlLine(line)
            THEN [state EXCEPT !.results =
                      Append(@, [url |-> line, remark |-> state.current_remark])]
            ELSE state
    IN scanned(Strip(raw, Whitespace))

ScanLine(state, raw) ==
    LET noted(remark) ==
            IF remark # NoneV THEN [state EXCEPT !.current_remark = remark] ELSE state
        scanned(line) ==
            IF line = <<>> THEN [state EXCEPT !.current_remark = NoneV]
            ELSE IF Head(line) = "#" THEN noted(extract_remark_from_comment(line))
            ELSE IF IsUrlLine(line)
            THEN [state EXCEPT !.results =
                      Append(@, [url |-> line, remark |-> state.current_remark]),
                  !.current_remark = NoneV]
            ELSE state
    IN scanned(Strip(raw, Whitespace))

MaxSourceLines == 4

LongWord == [j \in 1..(RemarkLimit + 1) |-> "x"]

SourceLines ==
    { <<" ", "\n">>,
      <<"#", " ", "A", "\n">>, <<" ", "#", "-", "B", "_", ",", " ", "z", "\n">>,
      <<"#", " ", "-", "-", "\n">>, <<"#">> \o LongWord \o <<"\n">>,
      <<"#", "http", ":", "/", "/", "u", "\n">>,
      <<"http", ":", "/", "/", "u", "\n">>, <<" ", "https", ":", "/", "/", "v", " ", "\n">>,
      <<"ftp", ":", "/", "/", "w", "\n">> }

\* only the last line of a file can lack its newline
LastLines == {<<"https", ":", "/", "/", "v">>, <<"#", "C">>}

\* the files of up to n lines, and the file that cannot be read
SourceFiles(n) ==
    {[readable |-> FALSE, lines |-> <<>>]}
        \cup {[readable |-> TRUE, lines |-> l] : l \in SeqsUpTo(SourceLines, n)}
        \cup {[readable |-> TRUE, lines |-> Append(l, last)] :
                  l \in SeqsUpTo(SourceLines, n - 1), last \in LastLines}

\* with open(filepath) ... f.readlines(); a file that cannot be read gives [].
OpenSource ==
    /\ pc = "open"
    /\ pc' = IF input.readable THEN "scan" ELSE "parsed"
    /\ UNCHANGED <<web, all_proxies, unique_proxies, seen, k, unitVars, document, input,
                   output>>
    /\ UNCHANGED aggVars

\* One turn of the loop over the lines.
ReadLine ==
    /\ pc = "scan"
    /\ output.read < Len(input.lines)
    /\ output' = [ScanLine(output, input.lines[output.read + 1]) EXCEPT !.read = @ + 1]
    /\ UNCHANGED <<pc, web, all_proxies, unique_proxies, seen, k, unitVars, document, input>>
    /\ UNCHANGED aggVars

\* return results
ReturnEntries ==
    /\ pc = "scan"
    /\ output.read = Len(input.lines)
    /\ pc' = "parsed"
    /\ UNCHANGED <<web, all_proxies, unique_proxies, seen, k, unitVars, document, input,
                   output>>
    /\ UNCHANGED aggVars

InitSource ==
    /\ pc = "open"
    /\ input \in SourceFiles(MaxSourceLines)
    /\ output = [results |-> <<>>, current_remark |-> NoneV, read |-> 0]
    /\ document = NoneV
    /\ fs = NoneV
    /\ proxy = NoneV
    /\ hashseed = 0
    /\ all_proxies = <<>>
    /\ unique_proxies = <<>>
    /\ seen = {}
    /\ k = 1
    /\ IdleAgg

NextSource == OpenSource \/ ReadLine \/ ReturnEntries

SpecSource == InitSource /\ [][NextSource]_vars

(***************************************************************************)
(* Properties of the Source Entries.                                       *)
(***************************************************************************)
LineAt(p) == Strip(input.lines[p], Whitespace)

IsBlank(p) == LineAt(p) = <<>>

IsAnnotation(p) == LineAt(p) # <<>> /\ Head(LineAt(p)) = "#"

IsLabelling(p) == IsAnnotation(p) /\ extract_remark_from_comment(LineAt(p)) # NoneV

UrlsUpTo(p) == {q \in 1..p : IsUrlLine(LineAt(q))}

NthUrl(j) == CHOOSE p \in UrlsUpTo(output.read) : Cardinality(UrlsUpTo(p)) = j

Latest(marks) == CHOOSE q \in marks : \A h \in marks : h <= q

\* The label pending at line p: that of the latest line before p among marks, when that line
\* is an annotation line.
PendingAt(p, marks) ==
    IF marks = {} THEN NoneV
    ELSE IF IsAnnotation(Latest(marks)) THEN extract_remark_from_comment(LineAt(Latest(marks)))
    ELSE NoneV

EntriesFollow(Marks(_)) ==
    /\ Len(output.results) = Cardinality(UrlsUpTo(output.read))
    /\ \A j \in 1..Len(output.results) :
          output.results[j] =
              [url |-> LineAt(NthUrl(j)), remark |-> PendingAt(NthUrl(j), Marks(NthUrl(j)))]

AnyAnnotationBefore(p) ==
    {q \in 1..(p - 1) : IsBlank(q) \/ IsUrlLine(LineAt(q)) \/ IsAnnotation(q)}

LabellingBefore(p) ==
    {q \in 1..(p - 1) : IsBlank(q) \/ IsUrlLine(LineAt(q)) \/ IsLabelling(q)}

\* C22 (as stated): at every point of the scan the entries are those of the URL lines read so
\* far, in order, and the label of each is the one derived from the nearest preceding
\* annotation line, unless a URL line or a blank line lies between the two: then it has none.
C22_LabelOfNearestAnnotation ==
    pc \in {"scan", "parsed"} => EntriesFollow(AnyAnnotationBefore)

\* C22 (amended): the same, with the nearest preceding annotation line from which a label can
\* be derived: an annotation line that yields no label leaves the pending label as it is.
C22_LabelOfNearestLabellingAnnotation ==
    pc \in {"scan", "parsed"} => EntriesFollow(LabellingBefore)

C22_Witness ==
    /\ pc = "parsed"
    /\ Len(output.results) = 2
    /\ output.results[1].remark # NoneV
    /\ output.results[2].remark = NoneV
    /\ \E q \in 1..Len(input.lines) :
          /\ IsAnnotation(q) /\ ~IsLabelling(q)
          /\ q < NthUrl(1)
          /\ \E h \in 1..(q - 1) : IsLabelling(h)

(***************************************************************************)
(* Properties of the counters of a batch.                                  *)
(***************************************************************************)
NodesOfLabel(L) ==
    IF \E j \in 1..Len(remark_nodes_map) : remark_nodes_map[j].remark.v = L
    THEN (CHOOSE e \in {remark_nodes_map[j] : j \in 1..Len(remark_nodes_map)} :
              e.remark.v = L).nodes
    ELSE <<>>

\* C23: in both paths every source the loop has passed is counted once, as a success or as
\* a failed entry (so after the batch the two numbers add up to the number of Source
\* Entries), no source has two failed entries, and remark_stats has one count per label of
\* remark_nodes_map, the number of nodes accumulated for it.
C23_EverySourceCountedOnce ==
    pc \in {"fetch", "done", "written"} =>
        /\ success_count + Len(failed_entries) = i
        /\ pc # "fetch" => success_count + Len(failed_entries) = total_count
        /\ \A s, t \in 1..Len(failed_entries) :
              failed_entries[s].url = failed_entries[t].url => s = t
        /\ DOMAIN remark_stats = {remark_nodes_map[j].remark.v : j \in 1..Len(remark_nodes_map)}
        /\ \A L \in DOMAIN remark_stats : remark_stats[L] = Len(NodesOfLabel(L))

C23_Witness ==
    /\ pc = "done"
    /\ use_parallel
    /\ success_count >= 2
    /\ Len(failed_entries) >= 1
    /\ \E L \in DOMAIN remark_stats : remark_stats[L] = Len(NodesOfLabel(L)) /\ remark_stats[L] >= 1

(***************************************************************************)
(* The deduplicated list and the order in which the tasks complete.        *)
(***************************************************************************)
\* the nodes the sequential loop obtains from source j
SequentialNodes(j) ==
    LET nodes(result) ==
            IF GotContent(result)
            THEN process_subscription_content(TextOf(result.content), RemarkOf(web, j))
            ELSE <<>>
    IN nodes(fetch_subscription(ScriptOf(j)).ret)

\* all_proxies of the sequential loop after the first n sources
RECURSIVE InListOrder(_)
InListOrder(n) == IF n = 0 THEN <<>> ELSE InListOrder(n - 1) \o SequentialNodes(n)

KeysOf(ps) == {DedupKey(ps[j]) : j \in 1..Len(ps)}

\* C24 (as stated): whatever the path and the order in which the tasks complete, the
\* deduplicated list handed on is the one the sequential loop produces for the same sources.
C24_SameSequenceEveryOrder ==
    pc = "done" => unique_proxies = Dedup(InListOrder(total_count))

\* C24 (amended): whatever the path and the order in which the tasks complete, the
\* deduplicated list handed on holds each identity key once and its identity keys are those of the
\* list the sequential loop produces for the same sources; in the sequential path it is
\* that list.
C24_SameKeysEveryOrder ==
    pc = "done" =>
        /\ KeysOf(unique_proxies) = KeysOf(Dedup(InListOrder(total_count)))
        /\ Len(unique_proxies) = Cardinality(KeysOf(unique_proxies))
        /\ ~use_parallel => unique_proxies = Dedup(InListOrder(total_count))

C24_Witness ==
    /\ pc = "done"
    /\ use_parallel
    /\ Len(unique_proxies) < Len(all_proxies)
    /\ unique_proxies # Dedup(InListOrder(total_count))

(***************************************************************************)
(* Classified content and the URI decoders.                                *)
(***************************************************************************)
\* the lines of the text that are URIs a decoder turns into a node
DecodableUris(content, remark) ==
    {j \in 1..Len(content.lines) :
        /\ content.lines[j].form = "url"
        /\ parse_proxy_url(content.lines[j].url, remark) # NoneV}

\* the nodes in the output that are the node of URI line j
FromUri(j) ==
    {x \in 1..Len(output) :
        output[x] = parse_proxy_url(input.content.lines[j].url, input.remark)}

\* C25: for content the classifier takes for a structured document, when both extractors
\* obtain nothing the output is that of line-by-line processing and holds the node of every
\* decodable URI line; when one of them obtains a node the output is what the first extractor
\* that obtains one returns, and no URI line has been decoded into it.
C25_LinesOnlyAfterExtractors ==
    (pc = "processed" /\ is_clash_yaml_content(input.content)) =>
        LET clash_proxies == parse_clash_yaml_content(input.content, input.remark)
            yaml_proxies == extract_yaml_proxies_from_content(input.content, input.remark)
            uris == DecodableUris(input.content, input.remark)
        IN IF clash_proxies = <<>> /\ yaml_proxies = <<>>
           THEN /\ output = ByLine(input.content, input.remark)
                /\ \A j \in uris : FromUri(j) # {}
           ELSE /\ output = IF clash_proxies # <<>> THEN clash_proxies ELSE yaml_proxies
                /\ \A j \in uris : FromUri(j) = {}

C25_WitnessLines ==
    /\ pc = "processed"
    /\ is_clash_yaml_content(input.content)
    /\ parse_clash_yaml_content(input.content, input.remark) = <<>>
    /\ extract_yaml_proxies_from_content(input.content, input.remark) = <<>>
    /\ DecodableUris(input.content, input.remark) # {}

C25_WitnessExtracted ==
    /\ pc = "processed"
    /\ is_clash_yaml_content(input.content)
    /\ output # <<>>
    /\ output # ByLine(input.content, input.remark)
    /\ DecodableUris(input.content, input.remark) # {}
====
